---- MODULE Spec2Model ----
(***************************************************************************)
(* PPPoE client (go.universe.tf/ppp): the Discovery codec, the Discovery   *)
(* state machine pppoeDiscovery, and the Conn facade (New / Close).        *)
(*                                                                         *)
(* Time is counted in ticks relative to "now": ctxLeft is the number of    *)
(* ticks until the context deadline, readLeft the number of ticks until    *)
(* the read deadline set on the raw discovery port.  time.Second is        *)
(* Second ticks, so that a context deadline can fall inside an attempt.    *)
(***************************************************************************)
EXTENDS Integers, Sequences, FiniteSets, TLC

\* ------------------------------------------------------------------ bounds
\* Largest context deadline, in ticks after the call of New.
MaxDeadline == 3
\* The transmission counters saturate here (contexts without deadline).
MaxSent == 3
\* The counter of Close calls saturates here.
MaxCloseCalls == 3
\* Longest TLV payload of the Discovery frames the parser is fed.
MaxPayload == 9
\* Most padding bytes appended to an LCP frame.
MaxPad == 2
\* Ticks of the clock the session calls read.
MaxClock == 2
\* Bytes in the longest packet handed to Write, or returned by Read.
MaxPkt == 2

\* ------------------------------------------------------ program constants
Second == 2

pppoePADI == 9
pppoePADO == 7
pppoePADR == 25
pppoePADS == 101
pppoePADT == 167

pppoeTagServiceName == 257
pppoeTagACName == 258
pppoeTagCookie == 260

\* First byte of every Discovery packet: version 1, type 1 (0x11).
pppoeVerType == 17

ethernetBroadcast == "ff:ff:ff:ff:ff:ff"

\* ------------------------------------------------------------ byte helpers
Min(a, b) == IF a < b THEN a ELSE b

\* binary.BigEndian.Uint16
Uint16(hi, lo) == hi * 256 + lo

\* binary.Write(&ret, binary.BigEndian, uint16(v)): v is truncated to 16 bits
PutUint16(v) == << (v % 65536) \div 256, v % 256 >>

\* The empty tag map, map[int][]byte{}
NoTags == [t \in {} |-> << >>]

\* Tags[k] = v
TagPut(tags, k, v) == [t \in (DOMAIN tags) \cup {k} |-> IF t = k THEN v ELSE tags[t]]

\* Tags[k] of a Go map: the zero value (nil slice) when k is absent
TagGet(tags, k) == IF k \in DOMAIN tags THEN tags[k] ELSE << >>

\* ---------------------------------------------------------- Discovery codec
ParseFail(e) == [err |-> e, Code |-> 0, SessionID |-> 0, Tags |-> NoTags]

\* A Go slice expression s[lo:hi] (an index s[i] is s[i:i+1]) panics at run
\* time unless 0 <= lo <= hi <= len(s).
InBounds(s, lo, hi) == 0 <= lo /\ lo <= hi /\ hi <= Len(s)

\* s[lo:hi]
Slice(s, lo, hi) == SubSeq(s, lo + 1, hi)

\* The run-time panic of an index or slice expression out of range.
Panic == "panic: index out of range"

\* The TLV loop keeping the first value met for a tag type.
RECURSIVE parseTags_firstWins(_, _)
parseTags_firstWins(pkt, ret) ==
    IF Len(pkt) = 0 THEN ret
    ELSE IF Len(pkt) < 4 THEN ParseFail("trailing garbage")
    ELSE LET tagType == Uint16(pkt[1], pkt[2])
             tagLen  == Uint16(pkt[3], pkt[4])
         IN  IF Len(Slice(pkt, 4, Len(pkt))) < tagLen THEN ParseFail("tag too long")
             ELSE IF tagType = pppoeTagServiceName /\ tagLen # 0
                  THEN ParseFail("non-nil Service-Name")
                  ELSE parseTags_firstWins(
                           Slice(pkt, 4 + tagLen, Len(pkt)),
                           IF tagType \in DOMAIN ret.Tags THEN ret
                           ELSE [ret EXCEPT !.Tags = TagPut(ret.Tags, tagType,
                                                            Slice(pkt, 4, 4 + tagLen))])

\* The TLV loop of parseDiscoveryPacket.
RECURSIVE parseTags(_, _)
parseTags(pkt, ret) ==
    IF Len(pkt) = 0 THEN ret
    ELSE IF Len(pkt) < 4 THEN ParseFail("trailing garbage")
    ELSE IF ~InBounds(pkt, 0, 4) THEN ParseFail(Panic)
    ELSE LET tagType == Uint16(pkt[1], pkt[2])
             tagLen  == Uint16(pkt[3], pkt[4])
         IN  IF Len(Slice(pkt, 4, Len(pkt))) < tagLen THEN ParseFail("tag too long")
             ELSE IF ~InBounds(pkt, 4, 4 + tagLen) THEN ParseFail(Panic)
             ELSE LET tagValue == Slice(pkt, 4, 4 + tagLen)
                      rest     == Slice(pkt, 4 + tagLen, Len(pkt))
                  IN  IF tagType = pppoeTagServiceName /\ tagLen # 0
                      THEN ParseFail("non-nil Service-Name")
                      ELSE parseTags(rest, [ret EXCEPT !.Tags = TagPut(ret.Tags, tagType, tagValue)])

\* parseDiscoveryPacket that takes any first byte for version 1, type 1.
parseDiscoveryPacket_anyVersion(pkt) ==
    IF Len(pkt) < 6 THEN ParseFail("too short")
    ELSE LET ret    == [err |-> "nil", Code |-> pkt[2],
                        SessionID |-> Uint16(pkt[3], pkt[4]), Tags |-> NoTags]
             tlvLen == Uint16(pkt[5], pkt[6])
             rest   == Slice(pkt, 6, Len(pkt))
         IN  IF tlvLen # Len(rest) THEN ParseFail("length mismatch")
             ELSE parseTags(rest, ret)

parseDiscoveryPacket(pkt) ==
    IF Len(pkt) < 6 THEN ParseFail("too short")
    ELSE IF ~InBounds(pkt, 0, 6) THEN ParseFail(Panic)
    ELSE IF pkt[1] # pppoeVerType THEN ParseFail("unknown version")
    ELSE LET ret    == [err |-> "nil", Code |-> pkt[2],
                        SessionID |-> Uint16(pkt[3], pkt[4]), Tags |-> NoTags]
             tlvLen == Uint16(pkt[5], pkt[6])
             rest   == Slice(pkt, 6, Len(pkt))
         IN  IF tlvLen # Len(rest) THEN ParseFail("length mismatch")
             ELSE parseTags(rest, ret)

\* sort.Ints over the tag types, then one TLV per tag.
RECURSIVE encodeTags(_, _)
encodeTags(tags, left) ==
    IF left = {} THEN << >>
    ELSE LET tlv == CHOOSE t \in left : \A u \in left : t <= u
             val == tags[tlv]
         IN  PutUint16(tlv) \o PutUint16(Len(val)) \o val \o encodeTags(tags, left \ {tlv})

RECURSIVE sumLen(_, _)
sumLen(tags, left) ==
    IF left = {} THEN 0
    ELSE LET t == CHOOSE t \in left : TRUE
         IN  Len(tags[t]) + sumLen(tags, left \ {t})

\* The encoder with the payload length counting the tag values only.
encodeDiscoveryPacket_valueBytesOnly(pkt) ==
    LET tlvLen == sumLen(pkt.Tags, DOMAIN pkt.Tags)
    IN  << pppoeVerType, pkt.Code % 256 >>
        \o PutUint16(pkt.SessionID)
        \o PutUint16(tlvLen)
        \o encodeTags(pkt.Tags, DOMAIN pkt.Tags)

\* One TLV per tag, the largest tag type first.
RECURSIVE encodeTags_descending(_, _)
encodeTags_descending(tags, left) ==
    IF left = {} THEN << >>
    ELSE LET tlv == CHOOSE t \in left : \A u \in left : t >= u
             val == tags[tlv]
         IN  PutUint16(tlv) \o PutUint16(Len(val)) \o val
             \o encodeTags_descending(tags, left \ {tlv})

\* The encoder writing the tags in descending order of tag type.
encodeDiscoveryPacket_descending(pkt) ==
    LET tlvLen == sumLen(pkt.Tags, DOMAIN pkt.Tags)
    IN  << pppoeVerType, pkt.Code % 256 >>
        \o PutUint16(pkt.SessionID)
        \o PutUint16(tlvLen + 4 * Cardinality(DOMAIN pkt.Tags))
        \o encodeTags_descending(pkt.Tags, DOMAIN pkt.Tags)

encodeDiscoveryPacket(pkt) ==
    LET tlvLen == sumLen(pkt.Tags, DOMAIN pkt.Tags)
    IN  << pppoeVerType, pkt.Code % 256 >>
        \o PutUint16(pkt.SessionID)
        \o PutUint16(tlvLen + 4 * Cardinality(DOMAIN pkt.Tags))
        \o encodeTags(pkt.Tags, DOMAIN pkt.Tags)

padiPacket ==
    encodeDiscoveryPacket([Code |-> pppoePADI, SessionID |-> 0,
                           Tags |-> TagPut(NoTags, pppoeTagServiceName, << >>)])

\* ------------------------------------------------------------------ LCP codec
\* Proto, the PPP protocol number of LCP (0xc021)
Proto == 49185

typeConfigureRequest == 1
typeConfigureAck == 2
typeConfigureNak == 3
typeConfigureReject == 4
typeTerminateRequest == 5
typeTerminateAck == 6
typeCodeReject == 7
typeProtocolReject == 8
typeEchoRequest == 9
typeEchoReply == 10
typeDiscardRequest == 11

optionMRU == 1
optionAuthProto == 3
optionMagic == 5

\* The AuthProto value of CHAP, which carries an algorithm byte (0xc223)
authProtoCHAP == 49699

ConfigureCodes == {typeConfigureRequest, typeConfigureAck, typeConfigureNak,
                   typeConfigureReject}
DataCodes == {typeTerminateRequest, typeTerminateAck, typeCodeReject}
EchoCodes == {typeEchoRequest, typeEchoReply, typeDiscardRequest}
KnownOptions == {optionMRU, optionAuthProto, optionMagic}

\* binary.BigEndian.Uint32
Uint32(b) == ((b[1] * 256 + b[2]) * 256 + b[3]) * 256 + b[4]

\* binary.Write(&out, binary.BigEndian, v) for a uint32
PutUint32(v) == << (v \div 16777216) % 256, (v \div 65536) % 256, (v \div 256) % 256, v % 256 >>

\* &Packet{Code: code, ID: id}: every other field at its zero value
LCPPacket(code, id) ==
    [err |-> "nil", Code |-> code, ID |-> id, MRU |-> 0, AuthProto |-> 0,
     CHAPAlgorithm |-> 0, UnknownOptions |-> NoTags, Data |-> << >>,
     RejectedProtocol |-> 0, Magic |-> 0]

\* return nil, err
LCPFail(e) == [LCPPacket(0, 0) EXCEPT !.err = e]

\* parseLCPOptions: the options gathered so far are ret.
RECURSIVE parseLCPOptions(_, _)
parseLCPOptions(b, ret) ==
    IF Len(b) = 0 THEN [err |-> "nil", opts |-> ret]
    ELSE IF Len(b) < 2 THEN [err |-> "trailing garbage", opts |-> NoTags]
    ELSE IF ~InBounds(b, 0, 2) THEN [err |-> Panic, opts |-> NoTags]
    ELSE LET optionType == b[1]
             optionLen  == b[2]
         IN  IF optionLen < 2 THEN [err |-> "option too short", opts |-> NoTags]
             ELSE IF optionLen > Len(b) THEN [err |-> "option overflows packet", opts |-> NoTags]
             ELSE IF ~InBounds(b, 2, optionLen) THEN [err |-> Panic, opts |-> NoTags]
             ELSE parseLCPOptions(Slice(b, optionLen, Len(b)),
                                  TagPut(ret, optionType, Slice(b, 2, optionLen)))

\* The switch answering io.ErrUnexpectedEOF for every breach of a length rule.
knownOptionError_alwaysEOF(opt, val) ==
    LET want == CASE opt = optionMRU -> {2}
                  [] opt = optionAuthProto ->
                        IF Len(val) >= 2 /\ Uint16(val[1], val[2]) = authProtoCHAP
                        THEN {3} ELSE {2}
                  [] opt = optionMagic -> {4}
    IN  IF Len(val) \in want THEN "nil" ELSE "unexpected EOF"

\* What the switch in Parse's loop over the options says of a known option.
knownOptionError(opt, val) ==
    CASE opt = optionMRU ->
            IF Len(val) # 2 THEN "unexpected length" ELSE "nil"
      [] opt = optionAuthProto ->
            IF Len(val) < 2 THEN "unexpected EOF"
            ELSE IF ~InBounds(val, 0, 2) THEN Panic
            ELSE IF Uint16(val[1], val[2]) = authProtoCHAP
                 THEN IF Len(val) # 3 THEN "unexpected length"
                      ELSE IF ~InBounds(val, 2, 3) THEN Panic ELSE "nil"
                 ELSE IF Len(val) # 2 THEN "unexpected length" ELSE "nil"
      [] opt = optionMagic ->
            IF Len(val) # 4 THEN "unexpected length" ELSE "nil"

\* The configure family with the loop leaving every option in the map.
parseConfigure_keepsKnown(ret, b, first) ==
    LET r       == parseLCPOptions(b, NoTags)
        opts    == r.opts
        known   == KnownOptions \cap DOMAIN opts
        failing == {o \in known : knownOptionError(o, opts[o]) # "nil"}
    IN  IF r.err # "nil" THEN LCPFail(r.err)
        ELSE IF failing # {} THEN LCPFail("unexpected length")
        ELSE [ret EXCEPT
                !.MRU = IF optionMRU \in known
                        THEN Uint16(opts[optionMRU][1], opts[optionMRU][2]) ELSE 0,
                !.AuthProto = IF optionAuthProto \in known
                              THEN Uint16(opts[optionAuthProto][1], opts[optionAuthProto][2])
                              ELSE 0,
                !.CHAPAlgorithm = IF optionAuthProto \in known /\ Len(opts[optionAuthProto]) = 3
                                  THEN opts[optionAuthProto][3] ELSE 0,
                !.Magic = IF optionMagic \in known THEN Uint32(opts[optionMagic]) ELSE 0,
                !.UnknownOptions = opts]

\* The configure family: parseLCPOptions, then the loop over its map.  Go
\* ranges over a map in no fixed order: `first` is the known option the loop
\* meets first, which decides the error returned when several are bad.
parseConfigure(ret, b, first) ==
    LET r       == parseLCPOptions(b, NoTags)
        opts    == r.opts
        known   == KnownOptions \cap DOMAIN opts
        failing == {o \in known : knownOptionError(o, opts[o]) # "nil"}
        bad     == IF first \in failing THEN first
                   ELSE CHOOSE o \in failing : \A u \in failing : o <= u
    IN  IF r.err # "nil" THEN LCPFail(r.err)
        ELSE IF failing # {} THEN LCPFail(knownOptionError(bad, opts[bad]))
        ELSE [ret EXCEPT
                !.MRU = IF optionMRU \in known
                        THEN Uint16(opts[optionMRU][1], opts[optionMRU][2]) ELSE 0,
                !.AuthProto = IF optionAuthProto \in known
                              THEN Uint16(opts[optionAuthProto][1], opts[optionAuthProto][2])
                              ELSE 0,
                !.CHAPAlgorithm = IF optionAuthProto \in known /\ Len(opts[optionAuthProto]) = 3
                                  THEN opts[optionAuthProto][3] ELSE 0,
                !.Magic = IF optionMagic \in known THEN Uint32(opts[optionMagic]) ELSE 0,
                !.UnknownOptions = [o \in (DOMAIN opts) \ KnownOptions |-> opts[o]]]

\* The rest of Parse with Data always the whole body, prefix included.
parseBody_dataIsBody(b1, first) ==
    LET ret    == LCPPacket(b1[1], b1[2])
        b      == Slice(b1, 4, Uint16(b1[3], b1[4]))
    IN  CASE ret.Code \in ConfigureCodes -> parseConfigure(ret, b, first)
          [] ret.Code = typeProtocolReject ->
                IF Len(b) < 2 THEN LCPFail("unexpected EOF")
                ELSE [ret EXCEPT !.RejectedProtocol = Uint16(b[1], b[2]), !.Data = b]
          [] ret.Code \in DataCodes -> [ret EXCEPT !.Data = b]
          [] ret.Code \in EchoCodes ->
                IF Len(b) < 4 THEN LCPFail("packet too short")
                ELSE [ret EXCEPT !.Magic = Uint32(Slice(b, 0, 4)), !.Data = b]
          [] OTHER -> LCPFail("unknown LCP packet type")

\* The rest of Parse, b1 being the frame after its two protocol bytes.
parseBody(b1, first) ==
    LET ret    == LCPPacket(b1[1], b1[2])
        b      == Slice(b1, 4, Uint16(b1[3], b1[4]))
    IN  CASE ret.Code \in ConfigureCodes -> parseConfigure(ret, b, first)
          [] ret.Code = typeProtocolReject ->
                IF Len(b) < 2 THEN LCPFail("unexpected EOF")
                ELSE IF ~InBounds(b, 0, 2) THEN LCPFail(Panic)
                ELSE [ret EXCEPT !.RejectedProtocol = Uint16(b[1], b[2]),
                                 !.Data = Slice(b, 2, Len(b))]
          [] ret.Code \in DataCodes -> [ret EXCEPT !.Data = b]
          [] ret.Code \in EchoCodes ->
                IF Len(b) < 4 THEN LCPFail("packet too short")
                ELSE IF ~InBounds(b, 0, 4) THEN LCPFail(Panic)
                ELSE [ret EXCEPT !.Magic = Uint32(Slice(b, 0, 4)),
                                 !.Data = Slice(b, 4, Len(b))]
          [] OTHER -> LCPFail("unknown LCP packet type")

\* Parse without the test that the declared length fits the frame.
Parse_noOverflowTest(b, first) ==
    IF Len(b) < 6 THEN LCPFail("unexpected EOF")
    ELSE IF Uint16(b[1], b[2]) # Proto THEN LCPFail("not an LCP packet")
    ELSE LET b1     == Slice(b, 2, Len(b))
             pktLen == Uint16(b1[3], b1[4])
         IN  IF pktLen < 4 THEN LCPFail("unexpected EOF")
             ELSE IF ~InBounds(b1, 4, pktLen) THEN LCPFail(Panic)
             ELSE parseBody(b1, first)

\* Parse that takes the frame only when the declared length is all of it.
Parse_exactLength(b, first) ==
    IF Len(b) < 6 THEN LCPFail("unexpected EOF")
    ELSE IF Uint16(b[1], b[2]) # Proto THEN LCPFail("not an LCP packet")
    ELSE LET b1     == Slice(b, 2, Len(b))
             pktLen == Uint16(b1[3], b1[4])
         IN  IF pktLen < 4 THEN LCPFail("unexpected EOF")
             ELSE IF pktLen # Len(b1) THEN LCPFail("unexpected EOF")
             ELSE parseBody(b1, first)

Parse(b, first) ==
    IF Len(b) < 6 THEN LCPFail("unexpected EOF")
    ELSE IF ~InBounds(b, 0, 2) THEN LCPFail(Panic)
    ELSE IF Uint16(b[1], b[2]) # Proto THEN LCPFail("not an LCP packet")
    ELSE IF ~InBounds(b, 2, Len(b)) THEN LCPFail(Panic)
    ELSE LET b1     == Slice(b, 2, Len(b))
             pktLen == Uint16(b1[3], b1[4])
         IN  IF ~InBounds(b1, 0, 4) THEN LCPFail(Panic)
             ELSE IF pktLen < 4 THEN LCPFail("unexpected EOF")
             ELSE IF pktLen > Len(b1) THEN LCPFail("unexpected EOF")
             ELSE IF ~InBounds(b1, 4, pktLen) THEN LCPFail(Panic)
             ELSE parseBody(b1, first)

\* The loop of Bytes over p.UnknownOptions, met in the order `order`.
RECURSIVE unknownOptionBytes(_, _)
unknownOptionBytes(opts, order) ==
    IF order = << >> THEN << >>
    ELSE LET opt == Head(order)
             val == opts[opt]
         IN  << opt, (Len(val) + 2) % 256 >> \o val \o unknownOptionBytes(opts, Tail(order))

\* What the switch of Bytes writes after the header.
bytesBody(p, order) ==
    CASE p.Code \in ConfigureCodes ->
            (IF p.MRU # 0 THEN << optionMRU, 4 >> \o PutUint16(p.MRU) ELSE << >>)
            \o (IF p.AuthProto # 0
                THEN << optionAuthProto, IF p.CHAPAlgorithm # 0 THEN 5 ELSE 4 >>
                     \o PutUint16(p.AuthProto)
                     \o (IF p.CHAPAlgorithm # 0 THEN << p.CHAPAlgorithm >> ELSE << >>)
                ELSE << >>)
            \o (IF p.Magic # 0 THEN << optionMagic, 6 >> \o PutUint32(p.Magic) ELSE << >>)
            \o unknownOptionBytes(p.UnknownOptions, order)
      [] p.Code = typeProtocolReject -> PutUint16(p.RejectedProtocol) \o p.Data
      [] p.Code \in DataCodes -> p.Data
      [] p.Code \in EchoCodes -> PutUint32(p.Magic) \o p.Data
      [] OTHER -> << >>

\* Bytes that leaves the placeholder in the length field.
Bytes_lengthNotPatched(p, order) ==
    PutUint16(Proto) \o << p.Code, p.ID, 0, 0 >> \o bytesBody(p, order)

\* Packet.Bytes, its loop over p.UnknownOptions meeting them in the order
\* `order`; the length field is patched last with len(ret)-2.
Bytes(p, order) ==
    LET body == bytesBody(p, order)
    IN  PutUint16(Proto) \o << p.Code, p.ID >> \o PutUint16(Len(body) + 4) \o body

\* The orders in which a range over a map with the keys S may meet them.
Orders(S) ==
    {o \in [1 .. Cardinality(S) -> S] : \A i, j \in 1 .. Cardinality(S) : i # j => o[i] # o[j]}

\* --------------------------------------------------------------- environment
\* Stations on the Ethernet segment that may send frames to the client.
Peers == {"ac1", "ac2"}

\* net.Addr(nil): no concentrator known yet.
NoAddr == "nil"

\* Frames the raw discovery port may deliver, named by what they are.
Frames ==
    { [kind |-> "short",                bytes |-> <<17>>],
      [kind |-> "not pppoe",            bytes |-> <<0, 7, 0, 0, 0, 0>>],
      [kind |-> "PADO",                 bytes |-> <<17, 7, 0, 0, 0, 4, 1, 1, 0, 0>>],
      [kind |-> "PADO cookie",          bytes |-> <<17, 7, 0, 0, 0, 9, 1, 1, 0, 0, 1, 4, 0, 1, 78>>],
      [kind |-> "PADO empty cookie",    bytes |-> <<17, 7, 0, 0, 0, 8, 1, 1, 0, 0, 1, 4, 0, 0>>],
      [kind |-> "PADO session 1",       bytes |-> <<17, 7, 0, 1, 0, 4, 1, 1, 0, 0>>],
      [kind |-> "PADO Service-Name A",  bytes |-> <<17, 7, 0, 0, 0, 5, 1, 1, 0, 1, 65>>],
      [kind |-> "PADO bad length",      bytes |-> <<17, 7, 0, 0, 0, 2, 1, 1, 0, 0>>],
      [kind |-> "PADS",                 bytes |-> <<17, 101, 66, 67, 0, 4, 1, 1, 0, 0>>],
      [kind |-> "PADS session 0",       bytes |-> <<17, 101, 0, 0, 0, 4, 1, 1, 0, 0>>],
      [kind |-> "PADS Service-Name A",  bytes |-> <<17, 101, 0, 7, 0, 5, 1, 1, 0, 1, 65>>],
      [kind |-> "PADT",                 bytes |-> <<17, 167, 0, 9, 0, 0>>] }

\* Errors conn.ReadFrom may return: err.(net.Error) and its Timeout().
TimeoutError == [msg |-> "i/o timeout", net |-> TRUE,  timeout |-> TRUE]
OtherReadErrors ==
    { [msg |-> "connection reset", net |-> TRUE,  timeout |-> FALSE],
      [msg |-> "bad descriptor",   net |-> FALSE, timeout |-> FALSE] }

\* No read deadline set on the port (time.Time{}).
NoDeadline == -1

Handles == {"disco", "session", "channel"}

\* --------------------------------------------------------------------- state
VARIABLES
    pc,             \* where New / pppoeDiscovery stands, "established" once a Conn exists
    ctxHasDeadline, \* ctx.Deadline(): ok
    ctxDeadline,    \* the deadline, in ticks after the start
    ctxLeft,        \* ticks left until the deadline: time.Now().Before(deadline) iff > 0
    ctxErr,         \* ctx.Err()
    readLeft,       \* ticks left until the port's read deadline, NoDeadline if none
    handle,         \* per handle: "none", "open" or "closed"
    closes,         \* per handle: how often it was closed
    concentrator,   \* pppoeDiscovery: concentrator
    cookie,         \* pppoeDiscovery: cookie
    sessionID,      \* pppoeDiscovery: returned sessionID
    closer,         \* pppoeDiscovery: whether a closer was returned
    err,            \* pppoeDiscovery: returned err
    sent,           \* every (dst, bytes) handed to conn.WriteTo
    padiCount,      \* calls of sendPADI
    padrCount,      \* calls of sendPADR
    padtCount,      \* calls of sendPADT
    tx,             \* the latest conn.WriteTo: which request, and to whom
    rx,             \* the outcome of the latest conn.ReadFrom
    pado,           \* the frame readPADO accepted
    pads,           \* the frame readPADS accepted
    newErr,         \* New: returned err
    conn,           \* the Conn New returned
    closeCalls,     \* calls of Conn.Close
    closeRet,       \* what the latest Close returned
    closeLog,       \* the teardown steps of the first Close, their outcomes, and
                    \* the handles open when its PADT was written
    cproto,         \* codec under exercise: "none", "discovery" or "lcp"
    cstep,          \* what the codec has done to its input so far
    cpkt,           \* the packet handed to the encoder
    cbytes,         \* the bytes handed to the parser
    cparse,         \* what the parser returned
    cre,            \* the bytes the encoder made of the parsed packet
    cpad,           \* 0x00 bytes the framing layer appended to the frame
    now,            \* time.Now() of the session calls, in ticks
    readDeadline,   \* Conn.readDeadline
    writeDeadline,  \* Conn.writeDeadline
    sockopt,        \* SO_RCVTIMEO and SO_SNDTIMEO of the session fd, 0 if none
    rd,             \* the Read in flight, or the latest one and its result
    wr,             \* the Write in flight, or the latest one and its result
    call            \* the latest deadline setter called, and its argument

vars == << pc, ctxHasDeadline, ctxDeadline, ctxLeft, ctxErr, readLeft, handle, closes,
           concentrator, cookie, sessionID, closer, err, sent, padiCount, padrCount,
           padtCount, tx, rx, pado, pads, newErr, conn, closeCalls, closeRet, closeLog,
           cproto, cstep, cpkt, cbytes, cparse, cre, cpad,
           now, readDeadline, writeDeadline, sockopt, rd, wr, call >>

ctxVars   == << ctxHasDeadline, ctxDeadline, ctxLeft, ctxErr >>
discVars  == << concentrator, cookie, sessionID, closer, err, pado, pads >>
txVars    == << sent, padiCount, padrCount, padtCount, tx >>
closeVars == << closeCalls, closeRet, closeLog >>
codecVars == << cproto, cstep, cpkt, cbytes, cparse, cre, cpad >>
ioVars    == << now, readDeadline, writeDeadline, sockopt, rd, wr, call >>

NoFrame == [from |-> NoAddr, kind |-> "none"]

\* (*Addr)(nil)
NilAddr == [Interface |-> "", SessionID |-> 0, HardwareAddr |-> NoAddr]

\* intf.HardwareAddr of the interface New runs on
LocalHardwareAddr == "02:00:00:00:00:01"

NoConn  == [exists |-> FALSE, closed |-> FALSE, localAddr |-> NilAddr,
            addr |-> [Interface |-> "", SessionID |-> 0, HardwareAddr |-> NoAddr]]

\* Nothing handed to a codec.
NoPacket == [err |-> "none"]

SocketOptions == {"SO_RCVTIMEO", "SO_SNDTIMEO"}

\* No Read, resp. Write, has been called on the Conn.
NoIO == [pc |-> "idle", deadline |-> NoDeadline, len |-> 0, n |-> 0, err |-> "nil",
         syscalls |-> 0]

\* No deadline setter has been called on the Conn.
NoCall == [op |-> "none", arg |-> NoDeadline]

\* The session fd as unix.Socket made it, and a Conn whose deadlines are the
\* zero time.Time.
IOIdle ==
    /\ now = 0
    /\ readDeadline = NoDeadline
    /\ writeDeadline = NoDeadline
    /\ sockopt = [o \in SocketOptions |-> 0]
    /\ rd = NoIO
    /\ wr = NoIO
    /\ call = NoCall

Init ==
    /\ pc = "New"
    /\ ctxHasDeadline \in BOOLEAN
    /\ ctxDeadline \in (IF ctxHasDeadline THEN 1 .. MaxDeadline ELSE {0})
    /\ ctxLeft = ctxDeadline
    /\ ctxErr = "nil"
    /\ readLeft = NoDeadline
    /\ handle = [h \in Handles |-> "none"]
    /\ closes = [h \in Handles |-> 0]
    /\ concentrator = NoAddr
    /\ cookie = << >>
    /\ sessionID = 0
    /\ closer = FALSE
    /\ err = "nil"
    /\ sent = {}
    /\ padiCount = 0
    /\ padrCount = 0
    /\ padtCount = 0
    /\ tx = [n |-> 0, kind |-> "none", dst |-> NoAddr]
    /\ rx = [phase |-> "none", outcome |-> "none", from |-> NoAddr, kind |-> "none"]
    /\ pado = NoFrame
    /\ pads = NoFrame
    /\ newErr = "nil"
    /\ conn = NoConn
    /\ closeCalls = 0
    /\ closeRet = "nil"
    /\ closeLog = [attempted |-> << >>, errs |-> << >>, ret |-> "nil", padtWith |-> {}]
    /\ cproto = "none"
    /\ cstep = "idle"
    /\ cpkt = NoPacket
    /\ cbytes = << >>
    /\ cparse = NoPacket
    /\ cre = << >>
    /\ cpad = 0
    /\ IOIdle

\* ------------------------------------------------------------ pppoeDiscovery
\* A loop condition that never looks at the deadline.
loopOpen_ignoresDeadline(hasDeadline, left) == TRUE

\* !hasDeadline || time.Now().Before(deadline)
loopOpen(hasDeadline, left) == ~hasDeadline \/ left > 0

\* A read deadline of one second whatever the context's deadline.
attemptDeadline_unclamped(hasDeadline, left) == Second

\* The deadline of context.WithTimeout(ctx, time.Second), which readPADO and
\* readPADS hand to conn.SetReadDeadline: the earlier of now+1s and ctx's own.
attemptDeadline(hasDeadline, left) == IF hasDeadline THEN Min(Second, left) ELSE Second

\* Every net.Error taken for a timeout: neterr.Timeout() is not asked.
isTimeout_anyNetError(e) == e.net

\* neterr, ok := err.(net.Error); ok && neterr.Timeout()
isTimeout(e) == e.net /\ e.timeout

\* parsePADO without its session ID test.
parsePADO_anySession(buf) ==
    LET pkt == parseDiscoveryPacket(buf)
    IN  IF pkt.err # "nil" THEN [err |-> pkt.err, cookie |-> << >>]
        ELSE IF pkt.Code # pppoePADO THEN [err |-> "not a PADO packet", cookie |-> << >>]
        ELSE [err |-> "nil", cookie |-> TagGet(pkt.Tags, pppoeTagCookie)]

parsePADO(buf) ==
    LET pkt == parseDiscoveryPacket(buf)
    IN  IF pkt.err # "nil" THEN [err |-> pkt.err, cookie |-> << >>]
        ELSE IF pkt.Code # pppoePADO THEN [err |-> "not a PADO packet", cookie |-> << >>]
        ELSE IF pkt.SessionID # 0 THEN [err |-> "non-zero session ID", cookie |-> << >>]
        ELSE [err |-> "nil", cookie |-> TagGet(pkt.Tags, pppoeTagCookie)]

parsePADS(buf) ==
    LET pkt == parseDiscoveryPacket(buf)
    IN  IF pkt.err # "nil" THEN [err |-> pkt.err, sessionID |-> 0]
        ELSE IF pkt.Code # pppoePADS THEN [err |-> "not a PADS packet", sessionID |-> 0]
        ELSE [err |-> "nil", sessionID |-> pkt.SessionID]

\* readPADS without its "wrong peer" test.
samePeer_anyPeer(c, from) == TRUE

\* concentrator.String() != from.String() is the "wrong peer" test of readPADS
samePeer(c, from) == c = from

\* sendPADR that never adds the AC-Cookie tag.
padrPacket_noCookie(ck) ==
    encodeDiscoveryPacket([Code |-> pppoePADR, SessionID |-> 0,
                           Tags |-> TagPut(NoTags, pppoeTagServiceName, << >>)])

\* The packet sendPADR writes.
padrPacket(ck) ==
    encodeDiscoveryPacket(
        [Code |-> pppoePADR, SessionID |-> 0,
         Tags |-> IF Len(ck) # 0
                  THEN TagPut(TagPut(NoTags, pppoeTagServiceName, << >>), pppoeTagCookie, ck)
                  ELSE TagPut(NoTags, pppoeTagServiceName, << >>)])

\* The packet sendPADT writes.
padtPacket(sid) ==
    encodeDiscoveryPacket([Code |-> pppoePADT, SessionID |-> sid, Tags |-> NoTags])

Inc(n, max) == Min(n + 1, max)

\* New has not yet got the result of pppoeDiscovery: the context still matters.
Running == {"New", "newDiscoveryConn", "newSessionFd", "padi_loop", "read_pado",
            "padr_loop", "read_pads"}

\* return sessionID, closer, err
DiscoveryReturn(sid, cl, e) ==
    /\ pc' = "discovery_returned"
    /\ sessionID' = sid
    /\ closer' = cl
    /\ err' = e

\* Time passes.
Tick ==
    /\ pc \in Running
    /\ (ctxHasDeadline /\ ctxLeft > 0) \/ readLeft > 0
    /\ ctxLeft' = IF ctxHasDeadline /\ ctxLeft > 0 THEN ctxLeft - 1 ELSE ctxLeft
    /\ readLeft' = IF readLeft > 0 THEN readLeft - 1 ELSE readLeft
    /\ UNCHANGED << pc, ctxHasDeadline, ctxDeadline, ctxErr, handle, closes, discVars,
                    txVars, rx, newErr, conn, closeVars, codecVars, ioVars >>

\* The caller of New cancels the context.
CtxCancel ==
    /\ pc \in Running
    /\ ctxErr = "nil"
    /\ ctxErr' = "Canceled"
    /\ UNCHANGED << pc, ctxHasDeadline, ctxDeadline, ctxLeft, readLeft, handle, closes,
                    discVars, txVars, rx, newErr, conn, closeVars, codecVars, ioVars >>

\* The context's timer fires once the deadline has passed and cancels the
\* context; ctx.Err() is nil until it has run.
CtxExpire ==
    /\ pc \in Running
    /\ ctxHasDeadline /\ ctxLeft = 0
    /\ ctxErr = "nil"
    /\ ctxErr' = "DeadlineExceeded"
    /\ UNCHANGED << pc, ctxHasDeadline, ctxDeadline, ctxLeft, readLeft, handle, closes,
                    discVars, txVars, rx, newErr, conn, closeVars, codecVars, ioVars >>

\* Head of the first loop with its condition true: sendPADI, then readPADO
\* sets the attempt's read deadline.
SendPADI ==
    /\ pc = "padi_loop"
    /\ concentrator = NoAddr /\ loopOpen(ctxHasDeadline, ctxLeft)
    /\ sent' = sent \cup {[dst |-> ethernetBroadcast, bytes |-> padiPacket]}
    /\ padiCount' = Inc(padiCount, MaxSent)
    /\ tx' = [n |-> 1 - tx.n, kind |-> "PADI", dst |-> ethernetBroadcast]
    /\ \E werr \in {"nil", "write error"} :
          IF werr # "nil"
          THEN /\ DiscoveryReturn(0, FALSE, "sending PADI packet")
               /\ UNCHANGED readLeft
          ELSE /\ readLeft' = attemptDeadline(ctxHasDeadline, ctxLeft)
               /\ pc' = "read_pado"
               /\ UNCHANGED << sessionID, closer, err >>
    /\ UNCHANGED << ctxVars, handle, closes, concentrator, cookie, pado, pads,
                    padrCount, padtCount, rx, newErr, conn, closeVars, codecVars, ioVars >>

\* Head of the first loop with its condition false: fall through to the second.
PADILoopExit ==
    /\ pc = "padi_loop"
    /\ ~(concentrator = NoAddr /\ loopOpen(ctxHasDeadline, ctxLeft))
    /\ pc' = "padr_loop"
    /\ UNCHANGED << ctxVars, readLeft, handle, closes, discVars, txVars, rx, newErr,
                    conn, closeVars, codecVars, ioVars >>

\* readPADO: conn.ReadFrom delivers a frame before the read deadline.
ReadPADOFrame ==
    /\ pc = "read_pado"
    /\ readLeft > 0
    /\ \E from \in Peers, f \in Frames :
          LET r == parsePADO(f.bytes)
          IN  /\ rx' = [phase |-> "PADO", outcome |-> "frame",
                        from |-> from, kind |-> f.kind]
              /\ IF r.err = "nil"
                 THEN /\ concentrator' = from
                      /\ cookie' = r.cookie
                      /\ pado' = [from |-> from, kind |-> f.kind]
                      /\ readLeft' = NoDeadline
                      /\ pc' = "padr_loop"
                 ELSE UNCHANGED << concentrator, cookie, pado, readLeft, pc >>
    /\ UNCHANGED << ctxVars, handle, closes, sessionID, closer, err, pads, txVars,
                    newErr, conn, closeVars, codecVars, ioVars >>

\* readPADO: conn.ReadFrom returns an error; a timeout only once the read
\* deadline has passed.
ReadPADOError ==
    /\ pc = "read_pado"
    /\ \E e \in OtherReadErrors \cup (IF readLeft = 0 THEN {TimeoutError} ELSE {}) :
          /\ rx' = [phase |-> "PADO",
                    outcome |-> IF e = TimeoutError THEN "timeout" ELSE "error",
                    from |-> NoAddr, kind |-> "none"]
          /\ IF isTimeout(e)
             THEN /\ pc' = "padi_loop"
                  /\ UNCHANGED << sessionID, closer, err >>
             ELSE DiscoveryReturn(0, FALSE, "waiting for PADO")
    /\ readLeft' = NoDeadline
    /\ UNCHANGED << ctxVars, handle, closes, concentrator, cookie, pado, pads, txVars,
                    newErr, conn, closeVars, codecVars, ioVars >>

\* Head of the second loop with its condition true: sendPADR, then readPADS
\* sets the attempt's read deadline.
SendPADR ==
    /\ pc = "padr_loop"
    /\ loopOpen(ctxHasDeadline, ctxLeft)
    /\ sent' = sent \cup {[dst |-> concentrator, bytes |-> padrPacket(cookie)]}
    /\ padrCount' = Inc(padrCount, MaxSent)
    /\ tx' = [n |-> 1 - tx.n, kind |-> "PADR", dst |-> concentrator]
    /\ \E werr \in {"nil", "write error"} :
          IF werr # "nil"
          THEN /\ DiscoveryReturn(0, FALSE, "sending PADR packet")
               /\ UNCHANGED readLeft
          ELSE /\ readLeft' = attemptDeadline(ctxHasDeadline, ctxLeft)
               /\ pc' = "read_pads"
               /\ UNCHANGED << sessionID, closer, err >>
    /\ UNCHANGED << ctxVars, handle, closes, concentrator, cookie, pado, pads,
                    padiCount, padtCount, rx, newErr, conn, closeVars, codecVars, ioVars >>

\* Head of the second loop with its condition false: return 0, nil, ctx.Err()
PADRLoopExit ==
    /\ pc = "padr_loop"
    /\ ~loopOpen(ctxHasDeadline, ctxLeft)
    /\ DiscoveryReturn(0, FALSE, ctxErr)
    /\ UNCHANGED << ctxVars, readLeft, handle, closes, concentrator, cookie, pado, pads,
                    txVars, rx, newErr, conn, closeVars, codecVars, ioVars >>

\* readPADS that takes a valid PADO for a new offer and changes concentrator.
ReadPADSFrame_adoptsPADO ==
    /\ pc = "read_pads"
    /\ readLeft > 0
    /\ \E from \in Peers, f \in Frames :
          LET r == parsePADS(f.bytes)
              o == parsePADO(f.bytes)
          IN  /\ rx' = [phase |-> "PADS", outcome |-> "frame",
                        from |-> from, kind |-> f.kind]
              /\ IF samePeer(concentrator, from) /\ r.err = "nil"
                 THEN /\ pads' = [from |-> from, kind |-> f.kind]
                      /\ readLeft' = NoDeadline
                      /\ DiscoveryReturn(r.sessionID, TRUE, "nil")
                      /\ UNCHANGED << concentrator, cookie, pado >>
                 ELSE /\ IF o.err = "nil"
                         THEN /\ concentrator' = from
                              /\ cookie' = o.cookie
                              /\ pado' = [from |-> from, kind |-> f.kind]
                         ELSE UNCHANGED << concentrator, cookie, pado >>
                      /\ UNCHANGED << pads, readLeft, pc, sessionID, closer, err >>
    /\ UNCHANGED << ctxVars, handle, closes, txVars, newErr, conn, closeVars, codecVars,
                    ioVars >>

\* readPADS that sets the read deadline anew after each frame it discards.
ReadPADSFrame_resetsTimer ==
    /\ pc = "read_pads"
    /\ readLeft > 0
    /\ \E from \in Peers, f \in Frames :
          LET r == parsePADS(f.bytes)
          IN  /\ rx' = [phase |-> "PADS", outcome |-> "frame",
                        from |-> from, kind |-> f.kind]
              /\ IF samePeer(concentrator, from) /\ r.err = "nil"
                 THEN /\ pads' = [from |-> from, kind |-> f.kind]
                      /\ readLeft' = NoDeadline
                      /\ DiscoveryReturn(r.sessionID, TRUE, "nil")
                 ELSE /\ readLeft' = attemptDeadline(ctxHasDeadline, ctxLeft)
                      /\ UNCHANGED << pads, pc, sessionID, closer, err >>
    /\ UNCHANGED << ctxVars, handle, closes, concentrator, cookie, pado, txVars,
                    newErr, conn, closeVars, codecVars, ioVars >>

\* readPADS: conn.ReadFrom delivers a frame before the read deadline.
ReadPADSFrame ==
    /\ pc = "read_pads"
    /\ readLeft > 0
    /\ \E from \in Peers, f \in Frames :
          LET r == parsePADS(f.bytes)
          IN  /\ rx' = [phase |-> "PADS", outcome |-> "frame",
                        from |-> from, kind |-> f.kind]
              /\ IF samePeer(concentrator, from) /\ r.err = "nil"
                 THEN /\ pads' = [from |-> from, kind |-> f.kind]
                      /\ readLeft' = NoDeadline
                      /\ DiscoveryReturn(r.sessionID, TRUE, "nil")
                 ELSE UNCHANGED << pads, readLeft, pc, sessionID, closer, err >>
    /\ UNCHANGED << ctxVars, handle, closes, concentrator, cookie, pado, txVars,
                    newErr, conn, closeVars, codecVars, ioVars >>

\* readPADS whose timeout starts the search for a concentrator anew.
ReadPADSError_restarts ==
    /\ pc = "read_pads"
    /\ \E e \in OtherReadErrors \cup (IF readLeft = 0 THEN {TimeoutError} ELSE {}) :
          /\ rx' = [phase |-> "PADS",
                    outcome |-> IF e = TimeoutError THEN "timeout" ELSE "error",
                    from |-> NoAddr, kind |-> "none"]
          /\ IF isTimeout(e)
             THEN /\ pc' = "padi_loop"
                  /\ concentrator' = NoAddr
                  /\ UNCHANGED << sessionID, closer, err >>
             ELSE /\ DiscoveryReturn(0, FALSE, "waiting for PADS")
                  /\ UNCHANGED concentrator
    /\ readLeft' = NoDeadline
    /\ UNCHANGED << ctxVars, handle, closes, cookie, pado, pads, txVars,
                    newErr, conn, closeVars, codecVars, ioVars >>

\* readPADS: conn.ReadFrom returns an error.
ReadPADSError ==
    /\ pc = "read_pads"
    /\ \E e \in OtherReadErrors \cup (IF readLeft = 0 THEN {TimeoutError} ELSE {}) :
          /\ rx' = [phase |-> "PADS",
                    outcome |-> IF e = TimeoutError THEN "timeout" ELSE "error",
                    from |-> NoAddr, kind |-> "none"]
          /\ IF isTimeout(e)
             THEN /\ pc' = "padr_loop"
                  /\ UNCHANGED << sessionID, closer, err >>
             ELSE DiscoveryReturn(0, FALSE, "waiting for PADS")
    /\ readLeft' = NoDeadline
    /\ UNCHANGED << ctxVars, handle, closes, concentrator, cookie, pado, pads, txVars,
                    newErr, conn, closeVars, codecVars, ioVars >>

\* ------------------------------------------------------------------- New
\* h.Close() / closeSessionFd(fd)
CloseHandle(hs, h) == [hs EXCEPT ![h] = "closed"]
CountClose(cs, h) == [cs EXCEPT ![h] = Inc(cs[h], 2 * MaxCloseCalls)]

\* return nil, err
NewFails(e) ==
    /\ pc' = "failed"
    /\ newErr' = e

\* net.InterfaceByName and the hardware address check.
NewInterface ==
    /\ pc = "New"
    /\ \E e \in {"nil", "no such interface", "non-ethernet hardware type"} :
          IF e # "nil" THEN NewFails(e)
          ELSE pc' = "newDiscoveryConn" /\ UNCHANGED newErr
    /\ UNCHANGED << ctxVars, readLeft, handle, closes, discVars, txVars, rx, conn, closeVars, codecVars, ioVars >>

\* New that runs Discovery right after opening the raw port.
NewDiscoveryConn_thenDiscovery ==
    /\ pc = "newDiscoveryConn"
    /\ handle' = [handle EXCEPT !["disco"] = "open"]
    /\ pc' = "padi_loop"
    /\ UNCHANGED << ctxVars, readLeft, closes, discVars, txVars, rx, newErr, conn,
                    closeVars, codecVars, ioVars >>

\* disco, err := newDiscoveryConn(ifName)
NewDiscoveryConn ==
    /\ pc = "newDiscoveryConn"
    /\ \E e \in {"nil", "creating PPPoE Discovery listener"} :
          IF e # "nil" THEN NewFails(e) /\ UNCHANGED handle
          ELSE /\ handle' = [handle EXCEPT !["disco"] = "open"]
               /\ pc' = "newSessionFd"
               /\ UNCHANGED newErr
    /\ UNCHANGED << ctxVars, readLeft, closes, discVars, txVars, rx, conn, closeVars, codecVars, ioVars >>

\* sessionFd, err := newSessionFd(ifName); on success pppoeDiscovery is entered
NewSessionFd ==
    /\ pc = "newSessionFd"
    /\ \E e \in {"nil", "socket error"} :
          IF e # "nil"
          THEN /\ handle' = CloseHandle(handle, "disco")
               /\ closes' = CountClose(closes, "disco")
               /\ NewFails(e)
          ELSE /\ handle' = [handle EXCEPT !["session"] = "open"]
               /\ pc' = "padi_loop"
               /\ UNCHANGED << closes, newErr >>
    /\ UNCHANGED << ctxVars, readLeft, discVars, txVars, rx, conn, closeVars, codecVars, ioVars >>

\* An unwinding that forgets the session fd.
NewUnwind_leavesSessionFd(e) ==
    /\ handle' = CloseHandle(handle, "disco")
    /\ closes' = CountClose(closes, "disco")
    /\ NewFails(e)

\* closeSessionFd(sessionFd); disco.Close(); return nil, err
NewUnwind(e) ==
    /\ handle' = CloseHandle(CloseHandle(handle, "session"), "disco")
    /\ closes' = CountClose(CountClose(closes, "session"), "disco")
    /\ NewFails(e)

\* pppoeDiscovery has returned to New.
NewAfterDiscovery ==
    /\ pc = "discovery_returned"
    /\ IF err # "nil" THEN NewUnwind(err)
       ELSE pc' = "connectSessionFd" /\ UNCHANGED << handle, closes, newErr >>
    /\ UNCHANGED << ctxVars, readLeft, discVars, txVars, rx, conn, closeVars, codecVars, ioVars >>

\* connectSessionFd(sessionFd, ifName, concentratorAddr, sessionID)
NewConnect ==
    /\ pc = "connectSessionFd"
    /\ \E e \in {"nil", "connect error"} :
          IF e # "nil" THEN NewUnwind(e)
          ELSE pc' = "newChannel" /\ UNCHANGED << handle, closes, newErr >>
    /\ UNCHANGED << ctxVars, readLeft, discVars, txVars, rx, conn, closeVars, codecVars, ioVars >>

\* f, err := newChannel(sessionFd), then the Conn is returned.  newChannel
\* closes the /dev/ppp file itself when one of its ioctls fails.
NewChannel ==
    /\ pc = "newChannel"
    /\ \E e \in {"nil", "open /dev/ppp", "PPPIOCGCHAN", "PPPIOCATTCHAN"} :
          IF e = "nil"
          THEN /\ handle' = [handle EXCEPT !["channel"] = "open"]
               /\ conn' = [exists |-> TRUE, closed |-> FALSE,
                           localAddr |-> [Interface |-> "eth0", SessionID |-> sessionID,
                                          HardwareAddr |-> LocalHardwareAddr],
                           addr |-> [Interface |-> "eth0", SessionID |-> sessionID,
                                     HardwareAddr |-> concentrator]]
               /\ pc' = "established"
               /\ UNCHANGED << closes, newErr >>
          ELSE /\ handle' = CloseHandle(CloseHandle(
                                IF e = "open /dev/ppp" THEN handle
                                ELSE CloseHandle(handle, "channel"), "session"), "disco")
               /\ closes' = CountClose(CountClose(
                                IF e = "open /dev/ppp" THEN closes
                                ELSE CountClose(closes, "channel"), "session"), "disco")
               /\ NewFails(e)
               /\ UNCHANGED conn
    /\ UNCHANGED << ctxVars, readLeft, discVars, txVars, rx, closeVars, codecVars, ioVars >>

\* ------------------------------------------------------- Conn.LocalAddr
\* return c.localAddr
LocalAddr(c) == c.localAddr

\* ------------------------------------------------------------- Conn.Close
\* A teardown that closes the raw port before it sends the PADT.
CloseSteps_padtLast == << "channel", "session", "disco", "padt" >>

CloseSteps == << "channel", "session", "padt", "disco" >>

\* The handle a teardown step closes; sendPADT closes the port it wrote to.
StepCloses(s) ==
    CASE s = "channel" -> "channel"
      [] s = "session" -> "session"
      [] s = "padt"    -> "disco"
      [] s = "disco"   -> "disco"

\* The handles still open when step s of steps begins, hs being the handles
\* when the first step begins.
RECURSIVE OpenBefore(_, _, _)
OpenBefore(steps, s, hs) ==
    IF steps = << >> \/ Head(steps) = s THEN {h \in Handles : hs[h] = "open"}
    ELSE OpenBefore(Tail(steps), s, CloseHandle(hs, StepCloses(Head(steps))))

\* The error a failing teardown step returns.
StepError(s) ==
    CASE s = "channel" -> "channel.Close error"
      [] s = "session" -> "closeSessionFd error"
      [] s = "padt"    -> "sendPADT error"
      [] s = "disco"   -> "discovery.Close error"

\* The chain with the PADT error tested before the session error.
CloseResult_padtFirst(channelErr, sessErr, padtErr, discErr) ==
    IF channelErr # "nil" THEN channelErr
    ELSE IF padtErr # "nil" THEN padtErr
    ELSE IF sessErr # "nil" THEN sessErr
    ELSE IF discErr # "nil" THEN discErr
    ELSE "nil"

\* The chain of if ...Err != nil { return ...Err } that ends Close.
CloseResult(channelErr, sessErr, padtErr, discErr) ==
    IF channelErr # "nil" THEN channelErr
    ELSE IF sessErr # "nil" THEN sessErr
    ELSE IF padtErr # "nil" THEN padtErr
    ELSE IF discErr # "nil" THEN discErr
    ELSE "nil"

\* Close without the tombstone test: every call tears down again.
ConnClose_noTombstone(closed, o) ==
    [closed |-> TRUE, steps |-> CloseSteps,
     ret |-> CloseResult(o["channel"], o["session"], o["padt"], o["disco"])]

\* Close that returns at the first failing step.
ConnClose_returnsEarly(closed, o) ==
    LET failing == {i \in 1 .. Len(CloseSteps) : o[CloseSteps[i]] # "nil"}
        last    == IF failing = {} THEN Len(CloseSteps)
                   ELSE CHOOSE i \in failing : \A j \in failing : i <= j
    IN  IF closed THEN [closed |-> TRUE, steps |-> << >>, ret |-> "nil"]
        ELSE [closed |-> TRUE, steps |-> SubSeq(CloseSteps, 1, last),
              ret |-> CloseResult(o["channel"], o["session"], o["padt"], o["disco"])]

\* Close on a Conn whose tombstone is `closed`, the teardown steps returning
\* the errors o: the new tombstone, the steps run, and the result.
ConnClose(closed, o) ==
    IF closed THEN [closed |-> TRUE, steps |-> << >>, ret |-> "nil"]
    ELSE [closed |-> TRUE, steps |-> CloseSteps,
          ret |-> CloseResult(o["channel"], o["session"], o["padt"], o["disco"])]

Ran(steps, s) == \E i \in DOMAIN steps : steps[i] = s

Close ==
    /\ pc = "established"
    /\ \E fails \in SUBSET {"channel", "session", "padt", "disco"} :
          LET o == [s \in {"channel", "session", "padt", "disco"} |->
                       IF s \in fails THEN StepError(s) ELSE "nil"]
              r == ConnClose(conn.closed, o)
              \* sendPADT closes the port after writing; Close closes it again
              h1 == IF Ran(r.steps, "channel") THEN CloseHandle(handle, "channel") ELSE handle
              h2 == IF Ran(r.steps, "session") THEN CloseHandle(h1, "session") ELSE h1
              h3 == IF Ran(r.steps, "padt") THEN CloseHandle(h2, "disco") ELSE h2
              h4 == IF Ran(r.steps, "disco") THEN CloseHandle(h3, "disco") ELSE h3
              c1 == IF Ran(r.steps, "channel") THEN CountClose(closes, "channel") ELSE closes
              c2 == IF Ran(r.steps, "session") THEN CountClose(c1, "session") ELSE c1
              c3 == IF Ran(r.steps, "padt") THEN CountClose(c2, "disco") ELSE c2
              c4 == IF Ran(r.steps, "disco") THEN CountClose(c3, "disco") ELSE c3
          IN  /\ conn' = [conn EXCEPT !.closed = r.closed]
              /\ handle' = h4
              /\ closes' = c4
              /\ sent' = IF Ran(r.steps, "padt")
                         THEN sent \cup {[dst |-> conn.addr.HardwareAddr,
                                          bytes |-> padtPacket(conn.addr.SessionID)]}
                         ELSE sent
              /\ padtCount' = IF Ran(r.steps, "padt") THEN Inc(padtCount, MaxSent)
                              ELSE padtCount
              /\ tx' = IF Ran(r.steps, "padt")
                       THEN [n |-> 1 - tx.n, kind |-> "PADT", dst |-> conn.addr.HardwareAddr]
                       ELSE tx
              /\ closeRet' = r.ret
              /\ closeLog' = IF closeCalls = 0
                             THEN [attempted |-> r.steps, errs |-> o, ret |-> r.ret,
                                   padtWith |-> OpenBefore(r.steps, "padt", handle)]
                             ELSE closeLog
    /\ closeCalls' = Inc(closeCalls, MaxCloseCalls)
    /\ UNCHANGED << pc, ctxVars, readLeft, discVars, padiCount, padrCount, rx, newErr,
                    codecVars, ioVars >>

\* --------------------------------------------- the session fd: Read and Write
\* time.Time values a deadline setter is given: the zero time, or the instant
\* one tick before the clock stops (ahead, now, or past when a call reads it).
Deadlines == {NoDeadline, MaxClock - 1}

\* The option setTimeout hands to unix.SetsockoptTimeval, given its opt
\* argument: unix.SO_RCVTIMEO whichever direction was asked for.
timeoutOption(opt) == "SO_RCVTIMEO"

\* setTimeout(fd, opt, deadline) at time t on the socket options so: the
\* error returned and the socket options left.
setTimeout(so, fd, opt, deadline, t) ==
    IF deadline # NoDeadline /\ deadline - t < 0
    THEN [err |-> "timeout", sockopt |-> so]
    ELSE IF fd # "open"
    THEN [err |-> "EBADF", sockopt |-> so]
    ELSE [err |-> "nil",
          sockopt |-> [so EXCEPT ![timeoutOption(opt)] =
                          IF deadline = NoDeadline THEN 0 ELSE deadline - t]]

\* The deferred function of sendSessionPacket and readSessionPacket:
\* if err == nil && resetErr != nil { err = resetErr }
deferredReset(e, resetErr) == IF e = "nil" /\ resetErr # "nil" THEN resetErr ELSE e

\* sendSessionPacket that passes on whatever unix.Write returned.
sendSessionPacketResult_shortOK(n, e, len) == [n |-> n, err |-> e]

\* What sendSessionPacket makes of n, err = unix.Write(fd, pkt), len(pkt) = len.
sendSessionPacketResult(n, e, len) ==
    IF e # "nil" THEN [n |-> n, err |-> e]
    ELSE IF n # len THEN [n |-> n, err |-> "short socket write"]
    ELSE [n |-> n, err |-> "nil"]

\* What unix.Read and unix.Write may return on the session fd: one of the
\* byte counts, or -1 and an errno; EAGAIN once the timeout of the direction,
\* if one is set, has run out.
SyscallResults(fd, timeout, counts) ==
    IF fd # "open" THEN {[n |-> -1, err |-> "EBADF"]}
    ELSE {[n |-> k, err |-> "nil"] : k \in counts}
         \cup (IF timeout > 0 THEN {[n |-> -1, err |-> "EAGAIN"]} ELSE {})

\* c.readDeadline = deadline; c.writeDeadline = deadline
SetDeadline(c, deadline) == [readDeadline |-> deadline, writeDeadline |-> deadline]

\* SetReadDeadline that sets the write deadline too.
SetReadDeadline_both(c, deadline) == [readDeadline |-> deadline, writeDeadline |-> deadline]

\* c.readDeadline = deadline
SetReadDeadline(c, deadline) == [c EXCEPT !.readDeadline = deadline]

\* c.writeDeadline = deadline
SetWriteDeadline(c, deadline) == [c EXCEPT !.writeDeadline = deadline]

\* RemoteAddr that reports the local end.
RemoteAddr_local(c) == c.localAddr

\* return c.remoteAddr, return &c.addr
RemoteAddr(c) == c.addr

ConnDeadlines == [readDeadline |-> readDeadline, writeDeadline |-> writeDeadline]

sessionVars == << pc, ctxVars, readLeft, handle, closes, discVars, txVars, rx, newErr,
                  conn, closeVars, codecVars >>

\* Time passes while the Conn is in use.
SessionTick ==
    /\ pc = "established"
    /\ now < MaxClock
    /\ now' = now + 1
    /\ UNCHANGED << sessionVars, readDeadline, writeDeadline, sockopt, rd, wr, call >>

SetDeadlineCall ==
    /\ pc = "established"
    /\ \E deadline \in Deadlines :
          LET c == SetDeadline(ConnDeadlines, deadline)
          IN  /\ readDeadline' = c.readDeadline
              /\ writeDeadline' = c.writeDeadline
              /\ call' = [op |-> "SetDeadline", arg |-> deadline]
    /\ UNCHANGED << sessionVars, now, sockopt, rd, wr >>

SetReadDeadlineCall ==
    /\ pc = "established"
    /\ \E deadline \in Deadlines :
          LET c == SetReadDeadline(ConnDeadlines, deadline)
          IN  /\ readDeadline' = c.readDeadline
              /\ writeDeadline' = c.writeDeadline
              /\ call' = [op |-> "SetReadDeadline", arg |-> deadline]
    /\ UNCHANGED << sessionVars, now, sockopt, rd, wr >>

SetWriteDeadlineCall ==
    /\ pc = "established"
    /\ \E deadline \in Deadlines :
          LET c == SetWriteDeadline(ConnDeadlines, deadline)
          IN  /\ readDeadline' = c.readDeadline
              /\ writeDeadline' = c.writeDeadline
              /\ call' = [op |-> "SetWriteDeadline", arg |-> deadline]
    /\ UNCHANGED << sessionVars, now, sockopt, rd, wr >>

\* Entry of a session call with the deadline of its direction: setTimeout if
\* the deadline is not zero, and the return of its error if it fails.
sessionCall(opt, deadline, len) ==
    LET r == setTimeout(sockopt, handle["session"], opt, deadline, now)
    IN  IF deadline = NoDeadline
        THEN [io |-> [pc |-> "syscall", deadline |-> deadline, len |-> len, n |-> 0,
                      err |-> "nil", syscalls |-> 0],
              sockopt |-> sockopt]
        ELSE IF r.err # "nil"
        THEN [io |-> [pc |-> "done", deadline |-> deadline, len |-> len, n |-> 0,
                      err |-> r.err, syscalls |-> 0],
              sockopt |-> sockopt]
        ELSE [io |-> [pc |-> "syscall", deadline |-> deadline, len |-> len, n |-> 0,
                      err |-> "nil", syscalls |-> 0],
              sockopt |-> r.sockopt]

\* The deferred function runs and the call returns.
sessionReturn(io, opt) ==
    LET r == setTimeout(sockopt, handle["session"], opt, NoDeadline, now)
    IN  [io |-> [io EXCEPT !.pc = "done", !.err = deferredReset(io.err, r.err)],
         sockopt |-> r.sockopt]

\* c.Read(b) is called: readSessionPacket(c.sessionFd, b, c.readDeadline) up
\* to unix.Read.
ReadCall ==
    /\ pc = "established"
    /\ rd.pc \in {"idle", "done"}
    /\ LET r == sessionCall("SO_RCVTIMEO", readDeadline, MaxPkt)
       IN  rd' = r.io /\ sockopt' = r.sockopt
    /\ UNCHANGED << sessionVars, now, readDeadline, writeDeadline, wr, call >>

\* unix.Read returns; readSessionPacket returns with it unless a deferred
\* function is pending.
ReadSyscall ==
    /\ rd.pc = "syscall"
    /\ \E res \in SyscallResults(handle["session"], sockopt["SO_RCVTIMEO"], {rd.len}) :
          rd' = [rd EXCEPT !.n = res.n, !.err = res.err, !.syscalls = rd.syscalls + 1,
                           !.pc = IF rd.deadline # NoDeadline THEN "deferred" ELSE "done"]
    /\ UNCHANGED << sessionVars, now, readDeadline, writeDeadline, sockopt, wr, call >>

ReadReturn ==
    /\ rd.pc = "deferred"
    /\ LET r == sessionReturn(rd, "SO_RCVTIMEO")
       IN  rd' = r.io /\ sockopt' = r.sockopt
    /\ UNCHANGED << sessionVars, now, readDeadline, writeDeadline, wr, call >>

\* c.Write(b) is called: sendSessionPacket(c.sessionFd, b, c.writeDeadline) up
\* to unix.Write.
WriteCall ==
    /\ pc = "established"
    /\ wr.pc \in {"idle", "done"}
    /\ \E len \in 1 .. MaxPkt :
          LET r == sessionCall("SO_SNDTIMEO", writeDeadline, len)
          IN  wr' = r.io /\ sockopt' = r.sockopt
    /\ UNCHANGED << sessionVars, now, readDeadline, writeDeadline, rd, call >>

\* unix.Write returns, and sendSessionPacket compares n with len(pkt).
WriteSyscall ==
    /\ wr.pc = "syscall"
    /\ \E res \in SyscallResults(handle["session"], sockopt["SO_SNDTIMEO"], 0 .. wr.len) :
          LET r == sendSessionPacketResult(res.n, res.err, wr.len)
          IN  wr' = [wr EXCEPT !.n = r.n, !.err = r.err, !.syscalls = wr.syscalls + 1,
                               !.pc = IF wr.deadline # NoDeadline THEN "deferred"
                                      ELSE "done"]
    /\ UNCHANGED << sessionVars, now, readDeadline, writeDeadline, sockopt, rd, call >>

WriteReturn ==
    /\ wr.pc = "deferred"
    /\ LET r == sessionReturn(wr, "SO_SNDTIMEO")
       IN  wr' = r.io /\ sockopt' = r.sockopt
    /\ UNCHANGED << sessionVars, now, readDeadline, writeDeadline, rd, call >>

\* The caller closes the Conn, once, and the teardown steps succeed.
SessionClose == closeCalls = 0 /\ Close /\ closeRet' = "nil"

\* New has connected the session fd to the concentrator and session ID that
\* pppoeDiscovery returned after one PADI and one PADR, under a context
\* without deadline.
SessionInit ==
    /\ pc = "newChannel"
    /\ ctxHasDeadline = FALSE
    /\ ctxDeadline = 0
    /\ ctxLeft = 0
    /\ ctxErr = "nil"
    /\ readLeft = NoDeadline
    /\ handle = [h \in Handles |-> IF h = "channel" THEN "none" ELSE "open"]
    /\ closes = [h \in Handles |-> 0]
    /\ concentrator \in Peers
    /\ cookie = << >>
    /\ \E f \in {g \in Frames : g.kind = "PADS"} :
          /\ sessionID = parsePADS(f.bytes).sessionID
          /\ pads = [from |-> concentrator, kind |-> f.kind]
          /\ rx = [phase |-> "PADS", outcome |-> "frame", from |-> concentrator,
                   kind |-> f.kind]
    /\ closer = TRUE
    /\ err = "nil"
    /\ sent = {[dst |-> ethernetBroadcast, bytes |-> padiPacket],
               [dst |-> concentrator, bytes |-> padrPacket(cookie)]}
    /\ padiCount = 1
    /\ padrCount = 1
    /\ padtCount = 0
    /\ tx = [n |-> 0, kind |-> "PADR", dst |-> concentrator]
    /\ pado = [from |-> concentrator, kind |-> "PADO"]
    /\ newErr = "nil"
    /\ conn = NoConn
    /\ closeCalls = 0
    /\ closeRet = "nil"
    /\ closeLog = [attempted |-> << >>, errs |-> << >>, ret |-> "nil", padtWith |-> {}]
    /\ cproto = "none"
    /\ cstep = "idle"
    /\ cpkt = NoPacket
    /\ cbytes = << >>
    /\ cparse = NoPacket
    /\ cre = << >>
    /\ cpad = 0
    /\ IOIdle

SessionNext ==
    \/ NewChannel \/ SessionTick
    \/ SetDeadlineCall \/ SetReadDeadlineCall \/ SetWriteDeadlineCall
    \/ ReadCall \/ ReadSyscall \/ ReadReturn
    \/ WriteCall \/ WriteSyscall \/ WriteReturn
    \/ SessionClose

SessionSpec == SessionInit /\ [][SessionNext]_vars

\* ---------------------------------------------------- the codecs at work
\* Bytes the Discovery parser is fed: every payload over DiscoveryAlphabet of
\* at most MaxPayload bytes behind a header that declares its length, the
\* short ones also behind a wrong length or a wrong first byte; every input
\* of fewer than 6 bytes over two byte values; and the frames of Frames.
DiscoveryAlphabet == {0, 1, 2}

Payloads == UNION {[1 .. n -> DiscoveryAlphabet] : n \in 0 .. MaxPayload}

DiscoveryInputs ==
    {<<17, 7, 0, 0>> \o PutUint16(Len(pl)) \o pl : pl \in Payloads}
    \cup {<<17, 7, 0, 0>> \o PutUint16(Len(pl) + 1) \o pl : pl \in {q \in Payloads : Len(q) <= 4}}
    \cup {<<16, 7, 0, 0>> \o PutUint16(Len(pl)) \o pl : pl \in {q \in Payloads : Len(q) <= 4}}
    \cup UNION {[1 .. n -> {17, 0}] : n \in 0 .. 5}
    \cup {f.bytes : f \in Frames}

\* A tag value of 65536 bytes: its length does not fit the 16-bit length fields.
OversizeValue == [i \in 1 .. 65536 |-> 0]

\* Packets the Discovery encoder is fed: tag keys are unique (Tags is a map),
\* Service-Name is empty when present.
DiscoveryTagMaps ==
    {t \in UNION {[K -> {<< >>, <<78>>, <<78, 79>>}] :
                     K \in SUBSET {pppoeTagServiceName, pppoeTagACName, pppoeTagCookie}} :
        pppoeTagServiceName \in DOMAIN t => t[pppoeTagServiceName] = << >>}

DiscoveryPackets ==
    {[err |-> "nil", Code |-> c, SessionID |-> sid, Tags |-> t] :
        c \in {pppoePADO, pppoePADS, 256 + pppoePADO}, sid \in {0, 16963, 65535},
        t \in DiscoveryTagMaps}
    \cup {[err |-> "nil", Code |-> pppoePADO, SessionID |-> 0,
           Tags |-> TagPut(NoTags, pppoeTagACName, OversizeValue)]}

\* Pieces an LCP frame's payload is put together from: well-formed options,
\* options with a bad length, and stray bytes.
LCPChunks ==
    { <<1, 4, 5, 220>>, <<1, 4, 0, 0>>, <<1, 3, 5>>,
      <<3, 5, 194, 35, 5>>, <<3, 5, 194, 35, 0>>, <<3, 4, 192, 35>>, <<3, 4, 194, 35>>,
      <<3, 3, 1>>,
      <<5, 6, 1, 2, 3, 4>>, <<5, 6, 0, 0, 0, 0>>,
      <<2, 2>>, <<2, 3, 1>>, <<7, 3, 9>>,
      <<2, 1>>, <<2, 9, 1>>, <<2>> }

LCPPayloads == {<< >>} \cup LCPChunks \cup {a \o b : a, b \in LCPChunks}

\* Frames the LCP parser is fed: each payload under several codes, with the
\* declared length right, one too large, or smaller than the header; frames
\* of another protocol; and inputs of fewer than 6 bytes.
LCPInputs ==
    {<<192, 33, c, 1>> \o PutUint16(Len(pl) + 4 + d) \o pl :
        c \in {typeConfigureRequest, typeTerminateRequest, typeProtocolReject,
               typeEchoRequest, 12},
        d \in {0, 1}, pl \in LCPPayloads}
    \cup {<<192, 33, c, 1, 0, 3>> \o pl :
             c \in {typeConfigureRequest, typeEchoRequest}, pl \in {<< >>, <<2, 2>>}}
    \cup {<<192, 33, c, 1>> \o PutUint16(Len(pl) + 4) \o pl :
             c \in {0, typeTerminateAck, typeCodeReject, typeEchoReply,
                    typeDiscardRequest, 255},
             pl \in {<< >>, <<7, 3, 9>>, <<5, 6, 1, 2, 3, 4>>}}
    \cup {<<192, 35, 1, 1, 0, 4>>, <<0, 33, 1, 1, 0, 4>>}
    \cup UNION {[1 .. n -> {192, 33}] : n \in 0 .. 5}

\* Packets Bytes is fed: code in 1..11, only the fields of the code's family
\* set, CHAPAlgorithm non-zero only with AuthProto = 0xc223.
LCPOptionMaps == UNION {[K -> {<< >>, <<1>>}] : K \in SUBSET {2, 7}}

\* An option value of 254 bytes: with its two header bytes it does not fit
\* the option's length byte.
LongOptionValue == [i \in 1 .. 254 |-> 0]

LCPPackets ==
    {[LCPPacket(c, 1) EXCEPT !.MRU = mru, !.AuthProto = ap, !.CHAPAlgorithm = alg,
                             !.Magic = magic, !.UnknownOptions = uo] :
        c \in {typeConfigureRequest, typeConfigureReject}, mru \in {0, 1500},
        ap \in {0, 49187, authProtoCHAP}, alg \in {0, 5}, magic \in {0, 16909060},
        uo \in LCPOptionMaps}
    \cup {[LCPPacket(c, 1) EXCEPT !.Data = d] :
             c \in DataCodes, d \in {<< >>, <<5>>, <<5, 6>>}}
    \cup {[LCPPacket(typeProtocolReject, 1) EXCEPT !.Data = d, !.RejectedProtocol = rp] :
             d \in {<< >>, <<5>>, <<5, 6>>}, rp \in {0, 49187}}
    \cup {[LCPPacket(c, 1) EXCEPT !.Data = d, !.Magic = magic] :
             c \in EchoCodes, d \in {<< >>, <<5>>, <<5, 6>>}, magic \in {0, 16909060}}
    \cup {[LCPPacket(typeConfigureRequest, 1) EXCEPT
               !.UnknownOptions = TagPut(NoTags, 2, LongOptionValue)],
          [LCPPacket(typeTerminateRequest, 1) EXCEPT !.Data = OversizeValue]}

ConsistentLCPPackets ==
    {p \in LCPPackets : p.CHAPAlgorithm # 0 => p.AuthProto = authProtoCHAP}

\* The program proper is not running while a codec is exercised alone.
CodecInit ==
    /\ pc = "codec"
    /\ ctxHasDeadline = FALSE
    /\ ctxDeadline = 0
    /\ ctxLeft = 0
    /\ ctxErr = "nil"
    /\ readLeft = NoDeadline
    /\ handle = [h \in Handles |-> "none"]
    /\ closes = [h \in Handles |-> 0]
    /\ concentrator = NoAddr
    /\ cookie = << >>
    /\ sessionID = 0
    /\ closer = FALSE
    /\ err = "nil"
    /\ sent = {}
    /\ padiCount = 0
    /\ padrCount = 0
    /\ padtCount = 0
    /\ tx = [n |-> 0, kind |-> "none", dst |-> NoAddr]
    /\ rx = [phase |-> "none", outcome |-> "none", from |-> NoAddr, kind |-> "none"]
    /\ pado = NoFrame
    /\ pads = NoFrame
    /\ newErr = "nil"
    /\ conn = NoConn
    /\ closeCalls = 0
    /\ closeRet = "nil"
    /\ closeLog = [attempted |-> << >>, errs |-> << >>, ret |-> "nil", padtWith |-> {}]
    /\ cparse = NoPacket
    /\ cre = << >>
    /\ cpad = 0
    /\ IOIdle
    /\ \/ /\ cproto = "discovery" /\ cstep = "bytes"
          /\ cpkt = NoPacket /\ cbytes \in DiscoveryInputs
       \/ /\ cproto = "discovery" /\ cstep = "packet"
          /\ cpkt \in DiscoveryPackets /\ cbytes = << >>
       \/ /\ cproto = "lcp" /\ cstep = "bytes"
          /\ cpkt = NoPacket /\ cbytes \in LCPInputs
       \/ /\ cproto = "lcp" /\ cstep = "packet"
          /\ cpkt \in ConsistentLCPPackets /\ cbytes = << >>

programVars == << pc, ctxVars, readLeft, handle, closes, discVars, txVars, rx, newErr,
                  conn, closeVars, ioVars >>

\* parseDiscoveryPacket is called on the bytes at hand.
DiscoveryParse ==
    /\ cproto = "discovery" /\ cstep \in {"bytes", "encoded"}
    /\ cparse' = parseDiscoveryPacket(cbytes)
    /\ cstep' = IF cstep = "bytes" THEN "parsed" ELSE "reparsed"
    /\ UNCHANGED << programVars, cproto, cpkt, cbytes, cre, cpad >>

\* encodeDiscoveryPacket is called on the packet at hand: the one given, or
\* the one just parsed.
DiscoveryEncode ==
    /\ cproto = "discovery"
    /\ \/ /\ cstep = "packet"
          /\ cbytes' = encodeDiscoveryPacket(cpkt)
          /\ cstep' = "encoded"
          /\ UNCHANGED cre
       \/ /\ cstep = "parsed" /\ cparse.err = "nil"
          /\ cre' = encodeDiscoveryPacket(cparse)
          /\ cstep' = "reencoded"
          /\ UNCHANGED cbytes
    /\ UNCHANGED << programVars, cproto, cpkt, cparse, cpad >>

\* The framing layer appends a padding byte to the frame.
LCPPad ==
    /\ cproto = "lcp" /\ cstep = "bytes" /\ cpad < MaxPad
    /\ cbytes' = Append(cbytes, 0)
    /\ cpad' = cpad + 1
    /\ UNCHANGED << programVars, cproto, cstep, cpkt, cparse, cre >>

\* Parse is called on the bytes at hand.
LCPParse ==
    /\ cproto = "lcp" /\ cstep \in {"bytes", "encoded"}
    /\ \E first \in KnownOptions : cparse' = Parse(cbytes, first)
    /\ cstep' = IF cstep = "bytes" THEN "parsed" ELSE "reparsed"
    /\ UNCHANGED << programVars, cproto, cpkt, cbytes, cre, cpad >>

\* Bytes is called on the packet at hand: the one given, or the one just parsed.
LCPBytes ==
    /\ cproto = "lcp"
    /\ \/ /\ cstep = "packet"
          /\ \E order \in Orders(DOMAIN cpkt.UnknownOptions) : cbytes' = Bytes(cpkt, order)
          /\ cstep' = "encoded"
          /\ UNCHANGED cre
       \/ /\ cstep = "parsed" /\ cparse.err = "nil"
          /\ \E order \in Orders(DOMAIN cparse.UnknownOptions) : cre' = Bytes(cparse, order)
          /\ cstep' = "reencoded"
          /\ UNCHANGED cbytes
    /\ UNCHANGED << programVars, cproto, cpkt, cparse, cpad >>

CodecNext == DiscoveryParse \/ DiscoveryEncode \/ LCPPad \/ LCPParse \/ LCPBytes

CodecSpec == CodecInit /\ [][CodecNext]_vars

\* ------------------------------------------------------------ specification
Discovery ==
    \/ SendPADI \/ PADILoopExit \/ ReadPADOFrame \/ ReadPADOError
    \/ SendPADR \/ PADRLoopExit \/ ReadPADSFrame \/ ReadPADSError

Next ==
    \/ Tick \/ CtxCancel \/ CtxExpire
    \/ NewInterface \/ NewDiscoveryConn \/ NewSessionFd
    \/ SendPADI \/ PADILoopExit \/ ReadPADOFrame \/ ReadPADOError
    \/ SendPADR \/ PADRLoopExit \/ ReadPADSFrame \/ ReadPADSError
    \/ NewAfterDiscovery \/ NewConnect \/ NewChannel
    \/ Close

Spec == Init /\ [][Next]_vars

\* Time passes, the context's timer fires, and the goroutine running New
\* keeps running.
FairSpec ==
    /\ Spec
    /\ WF_vars(Tick)
    /\ WF_vars(CtxExpire)
    /\ WF_vars(Discovery)
    /\ WF_vars(NewInterface \/ NewDiscoveryConn \/ NewSessionFd)
    /\ WF_vars(NewAfterDiscovery \/ NewConnect \/ NewChannel)

\* ------------------------------------------------------------------ claims
InDiscovery == pc \in {"padi_loop", "read_pado", "padr_loop", "read_pads"}

\* A step in which conn.ReadFrom returned: rx tells what.  (A frame that is
\* discarded right after the same frame from the same station leaves the
\* state as it is.)
ReadStep == rx' # rx \/ (pc \in {"read_pado", "read_pads"} /\ pc' # pc)

\* What each frame of Frames is, told from its name alone.
ValidPADOKinds == {"PADO", "PADO cookie", "PADO empty cookie"}

KindSession(kind) ==
    CASE kind = "PADS"           -> 16963
      [] kind = "PADS session 0" -> 0
      [] OTHER                   -> -1

\* The PADR that answers an accepted PADO of the given kind, byte for byte.
ExpectedPADR(kind) ==
    IF kind = "PADO cookie"
    THEN <<17, 25, 0, 0, 0, 9, 1, 1, 0, 0, 1, 4, 0, 1, 78>>
    ELSE <<17, 25, 0, 0, 0, 4, 1, 1, 0, 0>>

\* Attempts that fit before a deadline of d ticks, one per second begun.
Attempts(d) == (d + Second - 1) \div Second

\* C1: once the context is cancelled while pppoeDiscovery is in the PADI/PADO
\* or the PADR/PADS phase, pppoeDiscovery eventually returns (the claim adds:
\* with the cancellation reason as its error) instead of retransmitting on.
C1_CancelEndsDiscovery ==
    (InDiscovery /\ ctxErr = "Canceled") ~> (pc = "discovery_returned")

\* C2: under a context with a deadline pppoeDiscovery eventually returns
\* whatever frames arrive, and the deadline bounds the transmissions: at most
\* one PADI and one PADR per second begun before the deadline, and one
\* transmission more than that in total.
C2_DeadlineBoundsDiscovery ==
    /\ [](ctxHasDeadline =>
            /\ padiCount <= Attempts(ctxDeadline)
            /\ padrCount <= Attempts(ctxDeadline)
            /\ padiCount + padrCount <= Attempts(ctxDeadline) + 1)
    /\ (ctxHasDeadline /\ InDiscovery) ~> (pc = "discovery_returned")

\* The deadline, not a retry limit, ended a Discovery that used its whole budget.
C2_Witness ==
    /\ ctxHasDeadline /\ ctxDeadline = MaxDeadline
    /\ pc = "discovery_returned" /\ err = "DeadlineExceeded"
    /\ padiCount + padrCount = Attempts(ctxDeadline) + 1

\* C3: pppoeDiscovery never returns success from an accepted PADS with
\* session ID 0.
C3_AcceptedSessionNonZero ==
    (pc = "discovery_returned" /\ err = "nil" /\ closer) => sessionID # 0

\* C4: the frame readPADS accepts comes from the concentrator of the accepted
\* PADO, and the session ID pppoeDiscovery returns with its closer is the one
\* of that frame.
C4_PADSFromConcentrator ==
    /\ pads # NoFrame => (pads.from = concentrator /\ concentrator = pado.from)
    /\ closer => (pads # NoFrame /\ sessionID = KindSession(pads.kind))

\* A well-formed PADS from another station was read, and reading went on.
C4_Witness ==
    /\ pc = "read_pads"
    /\ rx.phase = "PADS" /\ rx.outcome = "frame" /\ rx.kind = "PADS"
    /\ rx.from # concentrator

\* C5: in the PADI/PADO phase a frame that is not a valid PADO is discarded:
\* the read loop goes on under the same read deadline, no concentrator is
\* chosen, nothing is sent and pppoeDiscovery does not return.
C5_InvalidPADODiscarded ==
    [][ (pc = "read_pado" /\ ReadStep /\ rx'.outcome = "frame"
            /\ rx'.kind \notin ValidPADOKinds)
        => /\ pc' = "read_pado"
           /\ concentrator' = NoAddr /\ cookie' = cookie /\ pado' = NoFrame
           /\ readLeft' = readLeft
           /\ tx' = tx /\ sent' = sent
           /\ err' = "nil" ]_vars

\* A PADO with a non-empty Service-Name was read, and reading went on.
C5_Witness ==
    /\ pc = "read_pado" /\ concentrator = NoAddr
    /\ rx.phase = "PADO" /\ rx.outcome = "frame" /\ rx.kind = "PADO Service-Name A"

\* C6: every PADR handed to the port goes to the sender of the accepted PADO
\* and is the PADR with an empty Service-Name tag and that PADO's AC-Cookie,
\* the cookie tag left out exactly when the PADO had no or an empty cookie.
C6_PADRAnswersPADO ==
    \A s \in sent :
        s.bytes[2] = pppoePADR =>
            /\ pado # NoFrame
            /\ s.dst = pado.from
            /\ s.bytes = ExpectedPADR(pado.kind)

\* A PADR with cookie was sent and sent again.
C6_Witness ==
    /\ padrCount >= 2 /\ pado.kind = "PADO cookie"
    /\ \E s \in sent : s.bytes[2] = pppoePADR /\ Len(s.bytes) = 15

\* C7 as claimed: after a read timeout the next step of pppoeDiscovery sends
\* the same request again; a read error that is no timeout makes it return an
\* error at once, and nothing is sent after that.
C7_TimeoutAlwaysResends ==
    [][ /\ (pc = "padi_loop" /\ rx.phase = "PADO" /\ rx.outcome = "timeout" /\ pc' # pc)
           => (tx'.n # tx.n /\ tx'.kind = "PADI")
        /\ (pc = "padr_loop" /\ rx.phase = "PADS" /\ rx.outcome = "timeout" /\ pc' # pc)
           => (tx'.n # tx.n /\ tx'.kind = "PADR")
        /\ (InDiscovery /\ ReadStep /\ rx'.outcome = "error")
           => (pc' = "discovery_returned" /\ err' # "nil" /\ tx' = tx)
        /\ (pc \in {"discovery_returned", "failed"}) => tx' = tx ]_vars

\* C7: after a read timeout pppoeDiscovery is back at the head of the same
\* loop; its next step sends the same request again if the context has no
\* deadline or the deadline has not passed, and sends nothing otherwise.  A
\* read error that is no timeout makes it return an error at once, and nothing
\* is sent after that.
C7_TimeoutResendsBeforeDeadline ==
    [][ /\ (ReadStep /\ rx'.outcome = "timeout")
           => /\ pc' = (IF rx'.phase = "PADO" THEN "padi_loop" ELSE "padr_loop")
              /\ err' = "nil" /\ tx' = tx
        /\ (pc = "padi_loop" /\ rx.phase = "PADO" /\ rx.outcome = "timeout" /\ pc' # pc)
           => IF ~ctxHasDeadline \/ ctxLeft > 0
              THEN tx'.n # tx.n /\ tx'.kind = "PADI"
              ELSE tx' = tx /\ pc' = "padr_loop"
        /\ (pc = "padr_loop" /\ rx.phase = "PADS" /\ rx.outcome = "timeout" /\ pc' # pc)
           => IF ~ctxHasDeadline \/ ctxLeft > 0
              THEN tx'.n # tx.n /\ tx'.kind = "PADR"
              ELSE tx' = tx /\ pc' = "discovery_returned" /\ err' = ctxErr
        /\ (InDiscovery /\ ReadStep /\ rx'.outcome = "error")
           => (pc' = "discovery_returned" /\ err' # "nil" /\ tx' = tx)
        /\ (pc \in {"discovery_returned", "failed"}) => tx' = tx ]_vars

\* A PADR went out again after its read had timed out.
C7_Witness ==
    /\ pc = "read_pads" /\ padrCount >= 2
    /\ rx.phase = "PADS" /\ rx.outcome = "timeout"

\* C8: once a Conn is closed, a Close call returns nil and tears nothing
\* down: no handle is closed, nothing is written; a Conn sends at most one PADT.
C8_CloseIdempotent ==
    /\ [](padtCount <= 1)
    /\ [][ conn.closed =>
             /\ handle' = handle /\ closes' = closes
             /\ sent' = sent /\ tx' = tx /\ padtCount' = padtCount
             /\ conn'.closed
             /\ (closeCalls' # closeCalls => closeRet' = "nil") ]_vars

\* Close returned an error first and nil on a later call.
C8_Witness ==
    closeCalls >= 2 /\ closeLog.ret # "nil" /\ closeRet = "nil"

\* C9: the first Close runs all four teardown steps whichever of them fail:
\* the channel, the session fd and the raw port are closed and the PADT is
\* written.
C9_CloseAttemptsAllSteps ==
    closeCalls >= 1 =>
        /\ closeLog.attempted = << "channel", "session", "padt", "disco" >>
        /\ \A h \in Handles : handle[h] = "closed" /\ closes[h] >= 1
        /\ padtCount = 1
        /\ [dst |-> conn.addr.HardwareAddr, bytes |-> padtPacket(conn.addr.SessionID)] \in sent

\* Every step of the first Close failed, the first one included.
C9_Witness ==
    /\ closeCalls >= 1
    /\ \A s \in {"channel", "session", "padt", "disco"} : closeLog.errs[s] # "nil"

\* C10: the first Close returns the error of the first failing step in the
\* order channel, session, PADT, raw port, and nil exactly when none failed.
C10_CloseReturnsFirstError ==
    closeCalls >= 1 =>
        LET order   == << "channel", "session", "padt", "disco" >>
            failing == {i \in 1 .. 4 : closeLog.errs[order[i]] # "nil"}
        IN  /\ (closeLog.ret = "nil") <=> (failing = {})
            /\ failing # {} =>
                 \E i \in failing :
                    /\ \A j \in failing : i <= j
                    /\ closeLog.ret = closeLog.errs[order[i]]

\* The session fd and the PADT failed, the channel did not: the session
\* error is returned.
C10_Witness ==
    /\ closeCalls >= 1
    /\ closeLog.errs["channel"] = "nil"
    /\ closeLog.errs["session"] # "nil" /\ closeLog.errs["padt"] # "nil"
    /\ closeLog.ret = "closeSessionFd error"

\* C11: when New has returned an error, no handle it had opened (raw
\* discovery port, session fd, /dev/ppp channel file) is still open, at
\* whichever point New failed, and no Conn exists.
C11_NewErrorLeavesNothingOpen ==
    pc = "failed" =>
        /\ newErr # "nil"
        /\ \A h \in Handles : handle[h] # "open"
        /\ ~conn.exists

\* New failed in newChannel after the /dev/ppp file had been opened: the
\* file, the session fd and the raw port were each closed.
C11_Witness ==
    /\ pc = "failed" /\ newErr = "PPPIOCATTCHAN"
    /\ \A h \in Handles : handle[h] = "closed" /\ closes[h] = 1

\* C12: every Discovery packet of New goes out while the session fd is open:
\* nothing has been handed to the raw port as long as the session fd does not
\* exist, and each PADI and PADR is written with the session fd open.
C12_SessionFdBeforePADI ==
    /\ [](handle["session"] = "none" => (sent = {} /\ padiCount = 0 /\ padrCount = 0))
    /\ [][ (tx' # tx /\ tx'.kind \in {"PADI", "PADR"}) => handle["session"] = "open" ]_vars

\* The first PADI has gone out and is waiting for its PADO, session fd open.
C12_Witness ==
    /\ pc = "read_pado" /\ padiCount = 1 /\ handle["session"] = "open"
    /\ [dst |-> ethernetBroadcast, bytes |-> padiPacket] \in sent

\* C13: LocalAddr returns nil for every Conn New has returned, open or closed.
C13_LocalAddrNil ==
    conn.exists => LocalAddr(conn) = NilAddr

\* -------------------------------------------------------- claims, codecs
IsPrefix(a, b) == Len(a) <= Len(b) /\ SubSeq(b, 1, Len(a)) = a

\* Σ(4 + len(value)) over the tags of p: what the payload length field is to hold.
PayloadLen(p) == sumLen(p.Tags, DOMAIN p.Tags) + 4 * Cardinality(DOMAIN p.Tags)

\* The tag types of the TLVs of a well-formed payload, in the order they stand.
RECURSIVE tlvTypes(_)
tlvTypes(pl) ==
    IF Len(pl) < 4 THEN << >>
    ELSE << Uint16(pl[1], pl[2]) >>
         \o tlvTypes(SubSeq(pl, 5 + Uint16(pl[3], pl[4]), Len(pl)))

Ascending(ts) == \A i \in 1 .. Len(ts) - 1 : ts[i] <= ts[i + 1]
StrictlyAscending(ts) == \A i \in 1 .. Len(ts) - 1 : ts[i] < ts[i + 1]

\* What is wrong with a TLV payload, read TLV by TLV from its start.
RECURSIVE tlvDefect(_)
tlvDefect(pl) ==
    IF Len(pl) = 0 THEN "none"
    ELSE IF Len(pl) \in 1 .. 3 THEN "1 to 3 bytes for a TLV header"
    ELSE IF Uint16(pl[3], pl[4]) > Len(pl) - 4 THEN "TLV longer than the rest"
    ELSE IF Uint16(pl[1], pl[2]) = 257 /\ Uint16(pl[3], pl[4]) # 0 THEN "Service-Name not empty"
    ELSE tlvDefect(SubSeq(pl, 5 + Uint16(pl[3], pl[4]), Len(pl)))

\* What is wrong with a Discovery frame, "none" if nothing.
DiscoveryDefect(b) ==
    IF Len(b) < 6 THEN "shorter than 6 bytes"
    ELSE IF b[1] # 17 THEN "first byte not 0x11"
    ELSE IF Uint16(b[5], b[6]) # Len(b) - 6 THEN "declared length differs"
    ELSE tlvDefect(SubSeq(b, 7, Len(b)))

\* The error parseDiscoveryPacket has for each defect.
DefectError(d) ==
    CASE d = "none"                          -> "nil"
      [] d = "shorter than 6 bytes"          -> "too short"
      [] d = "first byte not 0x11"           -> "unknown version"
      [] d = "declared length differs"       -> "length mismatch"
      [] d = "1 to 3 bytes for a TLV header" -> "trailing garbage"
      [] d = "TLV longer than the rest"      -> "tag too long"
      [] d = "Service-Name not empty"        -> "non-nil Service-Name"

\* The LCP length an LCP frame of at least 6 bytes declares.
DeclaredLen(b) == Uint16(b[5], b[6])

\* The frame as it was before the framing layer padded it.
Unpadded == SubSeq(cbytes, 1, Len(cbytes) - cpad)

\* C14 as claimed: for every discoveryPacket with a code of one byte, 16-bit
\* session ID and tag types, unique tag keys and an empty Service-Name,
\* parseDiscoveryPacket(encodeDiscoveryPacket(p)) succeeds and equals p.
C14_RoundTripEveryPacket ==
    (cproto = "discovery" /\ cstep = "reparsed" /\ cpkt.Code \in 0 .. 255)
        => (cparse.err = "nil" /\ cparse = cpkt)

\* C14: for every such discoveryPacket whose TLVs fit the 16-bit payload
\* length field (at most 65535 bytes in all),
\* parseDiscoveryPacket(encodeDiscoveryPacket(p)) succeeds and equals p in
\* code, session ID and tag map.
C14_RoundTripWithinLengthField ==
    (cproto = "discovery" /\ cstep = "reparsed" /\ cpkt.Code \in 0 .. 255
        /\ PayloadLen(cpkt) <= 65535)
        => (cparse.err = "nil" /\ cparse = cpkt)

\* A PADS with session ID, AC-Name and cookie came back as it was.
C14_Witness ==
    /\ cproto = "discovery" /\ cstep = "reparsed"
    /\ cpkt.Code = pppoePADS /\ cpkt.SessionID = 16963
    /\ DOMAIN cpkt.Tags = {pppoeTagServiceName, pppoeTagACName, pppoeTagCookie}
    /\ cpkt.Tags[pppoeTagCookie] = <<78, 79>>
    /\ cparse = cpkt

\* C15 as claimed: an accepted frame whose TLVs stand in ascending order of
\* tag type (each type at least the one before) is re-encoded byte for byte.
C15_ReencodeAscending ==
    (cproto = "discovery" /\ cstep = "reencoded"
        /\ Ascending(tlvTypes(SubSeq(cbytes, 7, Len(cbytes)))))
        => cre = cbytes

\* C15: an accepted frame whose TLVs stand in strictly ascending order of tag
\* type, no type twice, is re-encoded byte for byte.
C15_ReencodeStrictlyAscending ==
    (cproto = "discovery" /\ cstep = "reencoded"
        /\ StrictlyAscending(tlvTypes(SubSeq(cbytes, 7, Len(cbytes)))))
        => cre = cbytes

\* A frame with two TLVs of different types, one with a value, was
\* re-encoded to itself.
C15_Witness ==
    /\ cproto = "discovery" /\ cstep = "reencoded"
    /\ Len(cbytes) > 6 + 8
    /\ Len(tlvTypes(SubSeq(cbytes, 7, Len(cbytes)))) = 2
    /\ StrictlyAscending(tlvTypes(SubSeq(cbytes, 7, Len(cbytes))))
    /\ cre = cbytes

\* C16: parseDiscoveryPacket returns an error exactly for the inputs that are
\* shorter than 6 bytes, or do not start with 0x11, or declare a payload
\* length other than the bytes that follow, or leave 1 to 3 bytes where a TLV
\* header is due, or hold a TLV longer than the rest, or a Service-Name TLV
\* that is not empty; it succeeds on every other input.
C16_ParseErrorsExactly ==
    (cproto = "discovery" /\ cstep = "parsed")
        => /\ (cparse.err # "nil") <=> (DiscoveryDefect(cbytes) # "none")
           /\ cparse.err = DefectError(DiscoveryDefect(cbytes))

\* A frame with a good TLV and then a Service-Name TLV that is not empty
\* was refused.
C16_Witness ==
    /\ cproto = "discovery" /\ cstep = "parsed"
    /\ Len(cbytes) > 6 + 8
    /\ DiscoveryDefect(cbytes) = "Service-Name not empty"
    /\ cparse.err = "non-nil Service-Name"

\* C17: on every input parseDiscoveryPacket and lcp.Parse return, a packet
\* or an error, and no index or slice expression of theirs is out of range.
C17_ParsersTotal ==
    (cstep \in {"parsed", "reparsed", "reencoded"})
        => /\ cparse.err # Panic
           /\ cparse.err # "none"
           /\ cparse.err # "nil" => cparse \in {ParseFail(cparse.err), LCPFail(cparse.err)}

\* An LCP frame that declares one byte more than it has was refused.
C17_Witness ==
    /\ cproto = "lcp" /\ cstep = "parsed" /\ cpad = 0
    /\ Len(cbytes) >= 6 /\ DeclaredLen(cbytes) = Len(cbytes) - 1
    /\ cparse.err = "unexpected EOF"

C19_LCPRoundTrip ==
    (cproto = "lcp" /\ cstep = "reparsed") => (cparse.err = "nil" /\ cparse = cpkt)

\* C20 as claimed: 0x00 bytes appended to a frame Parse accepts change
\* nothing of what Parse returns, and Bytes of that Packet has exactly the
\* declared LCP length plus 2 bytes.
C20_PaddingAndExactLength ==
    (cproto = "lcp" /\ cstep \in {"parsed", "reencoded"}
        /\ \A f \in KnownOptions : Parse(Unpadded, f).err = "nil")
        => /\ \A f \in KnownOptions : cparse = Parse(Unpadded, f)
           /\ cstep = "reencoded" => Len(cre) = DeclaredLen(cbytes) + 2

\* C20: 0x00 bytes appended to a frame Parse accepts change nothing of what
\* Parse returns, and Bytes of that Packet is an encoding of Parse(b) of at
\* most the declared LCP length plus 2 bytes, so it holds none of the padding;
\* it has exactly that length when the code is 5..11.
C20_PaddingIgnored ==
    (cproto = "lcp" /\ cstep \in {"parsed", "reencoded"}
        /\ \A f \in KnownOptions : Parse(Unpadded, f).err = "nil")
        => /\ \A f \in KnownOptions : cparse = Parse(Unpadded, f)
           /\ cstep = "reencoded" =>
                /\ Len(cre) <= DeclaredLen(cbytes) + 2
                /\ \E order \in Orders(DOMAIN cparse.UnknownOptions) :
                      cre = Bytes(Parse(Unpadded, optionMRU), order)
                /\ cparse.Code \notin ConfigureCodes => Len(cre) = DeclaredLen(cbytes) + 2

\* A Configure-Request with MRU and CHAP options and the most padding was
\* parsed and re-encoded to its declared length.
C20_Witness ==
    /\ cproto = "lcp" /\ cstep = "reencoded" /\ cpad = MaxPad
    /\ cparse.Code = typeConfigureRequest
    /\ cparse.MRU = 1500 /\ cparse.CHAPAlgorithm = 5
    /\ Len(cre) = DeclaredLen(cbytes) + 2
    /\ Len(cbytes) = Len(cre) + MaxPad

\* ------------------------------------------------------- claims, session
\* C21: a Write whose unix.Write moved fewer bytes than the packet holds
\* returns an error, never success with n < len(pkt); success means the whole
\* packet went out; and a Write makes one unix.Write call, it does not retry.
C21_ShortWriteIsError ==
    /\ wr.syscalls <= 1
    /\ wr.pc \in {"deferred", "done"} =>
          /\ wr.n < wr.len => wr.err # "nil"
          /\ wr.err = "nil" => (wr.n = wr.len /\ wr.syscalls = 1)

\* One byte of a two-byte packet went out, and Write returned the
\* short-write error.
C21_Witness ==
    wr.pc = "done" /\ wr.len = 2 /\ wr.n = 1 /\ wr.err = "short socket write"

\* C22: a Write with a write deadline sets the send timeout on entry and
\* clears it on return, a Read with a read deadline does the same with the
\* receive timeout, and neither touches the timeout of the other direction.
C22_TimeoutMatchesDirection ==
    [][ /\ wr' # wr => sockopt'["SO_RCVTIMEO"] = sockopt["SO_RCVTIMEO"]
        /\ rd' # rd => sockopt'["SO_SNDTIMEO"] = sockopt["SO_SNDTIMEO"]
        /\ (wr.pc \in {"idle", "done"} /\ wr'.pc = "syscall" /\ wr'.deadline # NoDeadline)
              => sockopt'["SO_SNDTIMEO"] = wr'.deadline - now
        /\ (rd.pc \in {"idle", "done"} /\ rd'.pc = "syscall" /\ rd'.deadline # NoDeadline)
              => sockopt'["SO_RCVTIMEO"] = rd'.deadline - now
        /\ (wr.pc = "deferred" /\ wr'.pc = "done" /\ handle["session"] = "open")
              => sockopt'["SO_SNDTIMEO"] = 0
        /\ (rd.pc = "deferred" /\ rd'.pc = "done" /\ handle["session"] = "open")
              => sockopt'["SO_RCVTIMEO"] = 0 ]_vars

\* C29: the RemoteAddr of a Conn is the interface New was given with the
\* concentrator and the session ID pppoeDiscovery returned, and no Read,
\* Write, deadline setter or Close changes it.
C29_RemoteAddrFixed ==
    /\ [](conn.exists =>
            RemoteAddr(conn) = [Interface |-> "eth0", SessionID |-> sessionID,
                                HardwareAddr |-> concentrator])
    /\ [][conn.exists => RemoteAddr(conn)' = RemoteAddr(conn)]_vars

\* A Conn to the second concentrator has been read from, written to, given
\* deadlines and closed.
C29_Witness ==
    /\ conn.exists /\ conn.closed
    /\ RemoteAddr(conn).HardwareAddr = "ac2" /\ RemoteAddr(conn).SessionID = 16963
    /\ rd.pc = "done" /\ wr.pc = "done" /\ call.op = "SetWriteDeadline"

\* C30: SetReadDeadline changes the read deadline only and SetWriteDeadline
\* the write deadline only, each to the value given; SetDeadline sets both to
\* the value given; nothing else changes either; a Read, resp. Write, works
\* with the deadline of its direction as it stands when the call starts, and
\* a setter called later does not change it.
C30_DeadlineSetters ==
    [][ /\ (call' # call \/ readDeadline' # readDeadline \/ writeDeadline' # writeDeadline)
           => CASE call'.op = "SetReadDeadline" ->
                     readDeadline' = call'.arg /\ writeDeadline' = writeDeadline
                [] call'.op = "SetWriteDeadline" ->
                     writeDeadline' = call'.arg /\ readDeadline' = readDeadline
                [] call'.op = "SetDeadline" ->
                     readDeadline' = call'.arg /\ writeDeadline' = call'.arg
                [] OTHER -> FALSE
        /\ (rd.pc \in {"idle", "done"} /\ rd' # rd) => rd'.deadline = readDeadline
        /\ (wr.pc \in {"idle", "done"} /\ wr' # wr) => wr'.deadline = writeDeadline
        /\ rd.pc \in {"syscall", "deferred"} => rd'.deadline = rd.deadline
        /\ wr.pc \in {"syscall", "deferred"} => wr'.deadline = wr.deadline ]_vars

\* SetReadDeadline took the read deadline away while a Read that had started
\* under it was in flight, and the write deadline stayed.
C30_Witness ==
    /\ call = [op |-> "SetReadDeadline", arg |-> NoDeadline]
    /\ readDeadline = NoDeadline /\ writeDeadline # NoDeadline
    /\ rd.pc = "syscall" /\ rd.deadline # NoDeadline

\* ----------------------------------------------- claims, Discovery and Close
\* The AC-Cookie of each valid PADO of Frames, told from its name alone.
KindCookie(kind) == IF kind = "PADO cookie" THEN << 78 >> ELSE << >>

\* C23: the first frame that parses as a valid PADO gives the concentrator
\* and the cookie; no frame read later, valid PADOs included, replaces them;
\* every PADR goes to that concentrator with that cookie.
C23_FirstPADOWins ==
    /\ [][ /\ (pc = "read_pado" /\ ReadStep /\ rx'.outcome = "frame"
                 /\ rx'.kind \in ValidPADOKinds)
              => /\ pado = NoFrame
                 /\ pado' = [from |-> rx'.from, kind |-> rx'.kind]
                 /\ concentrator' = rx'.from
                 /\ cookie' = KindCookie(rx'.kind)
           /\ pado # NoFrame
              => (pado' = pado /\ concentrator' = concentrator /\ cookie' = cookie) ]_vars
    /\ [](\A s \in sent :
             s.bytes[2] = pppoePADR =>
                (s.dst = pado.from /\ s.dst = concentrator
                   /\ s.bytes = ExpectedPADR(pado.kind)))

\* After a PADO without cookie was accepted and the PADR sent twice, a valid
\* PADO with a cookie from the other station was read, and reading went on.
C23_Witness ==
    /\ pc = "read_pads" /\ padrCount >= 2
    /\ pado.kind = "PADO" /\ cookie = << >>
    /\ rx.phase = "PADS" /\ rx.outcome = "frame" /\ rx.kind = "PADO cookie"
    /\ rx.from # concentrator

\* C24: a frame is read in the PADO phase only after a PADI went out, and in
\* the PADS phase only after a PADR went out, the request being the latest
\* thing written; a request is sent again only when the latest read was that
\* of the same phase and ended in a timeout, which it does once the read
\* deadline has passed.
C24_WriteBeforeRead ==
    /\ [](rx.phase = "PADO" => padiCount >= 1)
    /\ [](rx.phase = "PADS" => padrCount >= 1)
    /\ [][ /\ (ReadStep /\ pc = "read_pado") => (tx.kind = "PADI" /\ rx'.phase = "PADO")
           /\ (ReadStep /\ pc = "read_pads") => (tx.kind = "PADR" /\ rx'.phase = "PADS")
           /\ (ReadStep /\ rx'.outcome = "timeout") => readLeft = 0
           /\ (tx' # tx /\ tx'.kind = "PADI" /\ padiCount >= 1)
              => (rx.phase = "PADO" /\ rx.outcome = "timeout")
           /\ (tx' # tx /\ tx'.kind = "PADR" /\ padrCount >= 1)
              => (rx.phase = "PADS" /\ rx.outcome = "timeout") ]_vars

\* The PADI went out a second time after its read had timed out, and the
\* second read has timed out as well.
C24_Witness ==
    /\ pc = "padi_loop" /\ padiCount = 2 /\ tx.kind = "PADI"
    /\ rx.phase = "PADO" /\ rx.outcome = "timeout"

\* C25: the read deadline is set when an attempt begins, together with its
\* request, and at no other time; while the attempt reads, the time left
\* never grows, and a frame that is discarded leaves it as it is.
C25_DeadlineSetOnce ==
    [][ /\ readLeft' > readLeft
           => (tx' # tx /\ pc \in {"padi_loop", "padr_loop"}
                 /\ pc' \in {"read_pado", "read_pads"})
        /\ (pc \in {"read_pado", "read_pads"} /\ pc' = pc) => readLeft' <= readLeft
        /\ (pc \in {"read_pado", "read_pads"} /\ pc' = pc /\ rx' # rx)
           => readLeft' = readLeft ]_vars

\* A PADS from another station was discarded, and the attempt's deadline has
\* passed all the same.
C25_Witness ==
    /\ pc = "read_pads" /\ readLeft = 0
    /\ rx.phase = "PADS" /\ rx.outcome = "frame" /\ rx.kind = "PADS"
    /\ rx.from # concentrator

\* C26: the read deadline of an attempt is the earlier of one second after
\* the attempt began and the context's deadline: while an attempt reads, the
\* time left is at most a second and at most what the context has left.
C26_AttemptDeadline ==
    /\ [](pc \in {"read_pado", "read_pads"} =>
            /\ 0 <= readLeft /\ readLeft <= Second
            /\ ctxHasDeadline => readLeft <= ctxLeft)
    /\ [][ (tx' # tx /\ pc' \in {"read_pado", "read_pads"})
           => readLeft' = IF ctxHasDeadline THEN Min(Second, ctxLeft) ELSE Second ]_vars

\* The second PADO attempt under a deadline of three ticks began with less
\* than a second left, and its deadline is the context's.
C26_Witness ==
    /\ pc = "read_pado" /\ padiCount = 2
    /\ ctxHasDeadline /\ ctxDeadline = 3 /\ ctxLeft = 1 /\ readLeft = 1

\* C27: the first Close runs its steps in the order channel, session fd,
\* PADT, raw port; when the PADT is written the raw port is open and the
\* channel and the session fd are closed.
C27_TeardownOrder ==
    closeCalls >= 1 =>
        /\ closeLog.attempted = << "channel", "session", "padt", "disco" >>
        /\ closeLog.padtWith = {"disco"}

\* A Close all of whose steps succeeded.
C27_Witness ==
    /\ closeCalls = 1 /\ closeLog.ret = "nil" /\ padtCount = 1
    /\ \A h \in Handles : handle[h] = "closed"

\* C28: every PADI and PADR written carries session ID 0; the PADT carries
\* a session ID that is not 0 and is the one pppoeDiscovery returned, goes to
\* the concentrator, and has no tags.
C28_SessionIDInvariant ==
    \A s \in sent :
        /\ s.bytes[2] \in {pppoePADI, pppoePADR} => Uint16(s.bytes[3], s.bytes[4]) = 0
        /\ s.bytes[2] = pppoePADT =>
              /\ Uint16(s.bytes[3], s.bytes[4]) # 0
              /\ Uint16(s.bytes[3], s.bytes[4]) = sessionID
              /\ s.dst = concentrator
              /\ Len(s.bytes) = 6 /\ Uint16(s.bytes[5], s.bytes[6]) = 0

\* ------------------------------------------------------ claims, LCP parser
\* The LCP frame behind the two protocol bytes of b, and its payload as the
\* length field declares it.
LCPCode(b) == b[3]
LCPLength(b) == Uint16(b[5], b[6])
LCPBody(b) == SubSeq(b, 7, LCPLength(b) + 2)

\* Walking the options of a configure payload one after the other, an option
\* is met whose length byte is below 2 or larger than the bytes that remain.
RECURSIVE BadOptionLength(_)
BadOptionLength(pl) ==
    IF Len(pl) < 2 THEN FALSE
    ELSE IF pl[2] < 2 \/ pl[2] > Len(pl) THEN TRUE
    ELSE BadOptionLength(SubSeq(pl, pl[2] + 1, Len(pl)))

\* The frames C31 names.
LCPMalformed(b) ==
    \/ Len(b) < 6
    \/ Uint16(b[1], b[2]) # 49185
    \/ LCPLength(b) < 4
    \/ LCPLength(b) > Len(b) - 2
    \/ LCPCode(b) \in 1 .. 4 /\ BadOptionLength(LCPBody(b))

\* C31: Parse returns an error, and does not panic, for every input shorter
\* than 6 bytes, not starting with c0 21, declaring an LCP length below 4 or
\* beyond the bytes behind the protocol field, or, in the configure family,
\* holding an option whose length byte is below 2 or beyond the bytes that
\* remain of the declared body.
C31_MalformedRejected ==
    (cproto = "lcp" /\ cstep \in {"parsed", "reparsed"} /\ LCPMalformed(cbytes))
        => (cparse.err # "nil" /\ cparse.err # Panic)

\* A Configure-Request whose second option declares 9 bytes where 3 remain
\* was parsed, with padding behind it, and refused.
C31_Witness ==
    /\ cproto = "lcp" /\ cstep = "parsed" /\ cpad = 1
    /\ cbytes = <<192, 33, 1, 1, 0, 11, 1, 4, 5, 220, 2, 9, 1, 0>>
    /\ cparse.err = "option overflows packet"

\* The value of the last option of type t in an option stream, <<-1>> if the
\* stream holds none: a later option of a type replaces the earlier one.
RECURSIVE LastOption(_, _, _)
LastOption(pl, t, sofar) ==
    IF Len(pl) < 2 THEN sofar
    ELSE LastOption(SubSeq(pl, pl[2] + 1, Len(pl)), t,
                    IF pl[1] = t THEN SubSeq(pl, 3, pl[2]) ELSE sofar)

\* The length rule of a recognized option, as the claim words it.
ValueLengthOK(t, val) ==
    CASE t = 1 -> Len(val) = 2
      [] t = 3 -> /\ Len(val) >= 2
                  /\ IF val[1] = 194 /\ val[2] = 35 THEN Len(val) = 3 ELSE Len(val) = 2
      [] t = 5 -> Len(val) = 4

\* The recognized options of a well-framed configure frame whose value (the
\* last one of its type) breaks its length rule.
BadValueOptions(b) ==
    {t \in {1, 3, 5} : LET val == LastOption(LCPBody(b), t, <<-1>>)
                       IN  val # <<-1>> /\ ~ValueLengthOK(t, val)}

\* An option stream that falls into whole options, with no stray last byte.
RECURSIVE WholeOptions(_)
WholeOptions(pl) ==
    \/ Len(pl) = 0
    \/ Len(pl) >= 2 /\ pl[2] >= 2 /\ pl[2] <= Len(pl)
                    /\ WholeOptions(SubSeq(pl, pl[2] + 1, Len(pl)))

\* Parse has run on a configure-family frame whose body falls into options.
ConfigureParsed ==
    /\ cproto = "lcp" /\ cstep \in {"parsed", "reparsed"}
    /\ ~LCPMalformed(cbytes) /\ LCPCode(cbytes) \in 1 .. 4
    /\ WholeOptions(LCPBody(cbytes))

\* C32 as stated: in a configure-family frame every recognized option whose
\* value length breaks its rule (MRU not 2 bytes; AuthProto under 2 bytes, not
\* 3 bytes with protocol 0xc223, not 2 bytes otherwise; Magic not 4 bytes)
\* makes Parse fail with one and the same error, the unexpected-length one.
C32_SameErrorKind ==
    (ConfigureParsed /\ BadValueOptions(cbytes) # {})
        => cparse.err = "unexpected length"

\* C32 amended: such a frame always fails, with the error of one of its bad
\* options: unexpected EOF for an AuthProto value under 2 bytes, the
\* unexpected-length error for every other breach.
C32_BadValueRejected ==
    (ConfigureParsed /\ BadValueOptions(cbytes) # {})
        => \E t \in BadValueOptions(cbytes) :
              cparse.err = IF t = 3 /\ Len(LastOption(LCPBody(cbytes), 3, <<-1>>)) < 2
                           THEN "unexpected EOF" ELSE "unexpected length"

C32_Witness ==
    /\ cproto = "lcp" /\ cstep = "parsed"
    /\ cbytes = <<192, 33, 1, 1, 0, 7, 3, 3, 1>>
    /\ cparse.err = "unexpected EOF"

\* Parse has run on a frame that passes the tests on its outer framing.
FramedParsed ==
    /\ cproto = "lcp" /\ cstep \in {"parsed", "reparsed"}
    /\ Len(cbytes) >= 6 /\ cbytes[1] = 192 /\ cbytes[2] = 33
    /\ LCPLength(cbytes) >= 4 /\ LCPLength(cbytes) <= Len(cbytes) - 2

\* C33: Parse dispatches on the code.  Codes 5, 6, 7 put the whole body into
\* Data; code 8 fails on a body under 2 bytes and otherwise makes
\* RejectedProtocol of the first 2 bytes and Data of the rest; codes 9, 10, 11
\* fail on a body under 4 bytes and otherwise make Magic of the first 4 bytes
\* and Data of the rest; every code outside 1..11 fails.
C33_CodeDispatch ==
    FramedParsed =>
        LET code == LCPCode(cbytes)
            body == LCPBody(cbytes)
            n    == Len(body)
        IN  /\ code \in {5, 6, 7} => cparse.err = "nil" /\ cparse.Data = body
            /\ (code = 8 /\ n < 2) => cparse.err # "nil"
            /\ (code = 8 /\ n >= 2) =>
                    /\ cparse.err = "nil"
                    /\ cparse.RejectedProtocol = body[1] * 256 + body[2]
                    /\ cparse.Data = SubSeq(body, 3, n)
            /\ (code \in {9, 10, 11} /\ n < 4) => cparse.err # "nil"
            /\ (code \in {9, 10, 11} /\ n >= 4) =>
                    /\ cparse.err = "nil"
                    /\ cparse.Magic = ((body[1] * 256 + body[2]) * 256 + body[3]) * 256 + body[4]
                    /\ cparse.Data = SubSeq(body, 5, n)
            /\ code \notin 1 .. 11 => cparse.err # "nil"
            /\ cparse.err # Panic
            /\ cparse.err = "nil" => cparse.Code = code /\ cparse.ID = cbytes[4]

C33_Witness ==
    /\ cproto = "lcp" /\ cstep = "parsed"
    /\ cbytes = <<192, 33, 10, 1, 0, 10, 5, 6, 1, 2, 3, 4>>
    /\ cparse.err = "nil" /\ cparse.Magic = 84279554 /\ cparse.Data = <<3, 4>>

\* ------------------------------------------- claims, Discovery tag map
\* The TLVs of a well-formed payload, in the order they stand.
RECURSIVE tlvList(_)
tlvList(pl) ==
    IF Len(pl) < 4 THEN << >>
    ELSE << [type |-> Uint16(pl[1], pl[2]),
             value |-> SubSeq(pl, 5, 4 + Uint16(pl[3], pl[4]))] >>
         \o tlvList(SubSeq(pl, 5 + Uint16(pl[3], pl[4]), Len(pl)))

\* A tag type stands more than once in the TLVs.
RepeatsType(tlvs) ==
    \E i, j \in 1 .. Len(tlvs) : i < j /\ tlvs[i].type = tlvs[j].type

\* C34: a Discovery frame that is valid apart from holding a tag type more
\* than once is accepted; the tag map of an accepted frame has exactly the tag
\* types that stand in it, Service-Name with its empty value among them, each
\* with the value of its last TLV.
C34_LastTagWins ==
    (cproto = "discovery" /\ cstep = "parsed" /\ DiscoveryDefect(cbytes) = "none")
        => LET tlvs == tlvList(SubSeq(cbytes, 7, Len(cbytes)))
           IN  /\ cparse.err = "nil"
               /\ DOMAIN cparse.Tags = {tlvs[i].type : i \in 1 .. Len(tlvs)}
               /\ \A i \in 1 .. Len(tlvs) :
                      (\A j \in i + 1 .. Len(tlvs) : tlvs[j].type # tlvs[i].type)
                          => cparse.Tags[tlvs[i].type] = tlvs[i].value

\* A frame with two TLVs of one type and different values was parsed, and
\* one with Service-Name twice.
C34_Witness ==
    /\ cproto = "discovery" /\ cstep = "parsed" /\ cparse.err = "nil"
    /\ LET tlvs == tlvList(SubSeq(cbytes, 7, Len(cbytes)))
       IN  /\ Len(tlvs) = 2 /\ RepeatsType(tlvs)
           /\ tlvs[1].value # tlvs[2].value
           /\ cparse.Tags[tlvs[2].type] = tlvs[2].value

C34_WitnessServiceName ==
    /\ cproto = "discovery" /\ cstep = "parsed" /\ cparse.err = "nil"
    /\ cbytes = <<17, 7, 0, 0, 0, 8, 1, 1, 0, 0, 1, 1, 0, 0>>
    /\ cparse.Tags = TagPut(NoTags, pppoeTagServiceName, << >>)

\* ------------------------------------------ claims, Discovery and teardown
\* C35: whenever pppoeDiscovery returns a nil error it returns with it a
\* closer and the session ID of an accepted PADS; a deadline that passes
\* without a PADO or without a PADS gives a non-nil error.
C35_NilErrorMeansSession ==
    (pc = "discovery_returned" /\ err = "nil")
        => /\ closer
           /\ pads # NoFrame
           /\ sessionID = KindSession(pads.kind)

\* A step in which a packet of the given kind is handed to conn.WriteTo.
Sends(kind) == tx' # tx /\ tx'.kind = kind

\* C36: Discovery only moves forward.  A PADR goes out only once a valid PADO
\* has been accepted, and to the station that sent it, never to a nil
\* address; no PADI goes out after the first PADR; a timeout waiting for the
\* PADS leads back to the PADR, and nothing leads from the PADR/PADS phase
\* back to the search for a concentrator.
C36_ForwardOnly ==
    /\ [][Sends("PADR") => /\ pado # NoFrame /\ pado.kind \in ValidPADOKinds
                           /\ concentrator # NoAddr /\ concentrator = pado.from
                           /\ tx'.dst = concentrator]_vars
    /\ [][Sends("PADI") => padrCount = 0]_vars
    /\ [][(pc \in {"padr_loop", "read_pads"})
            => (pc' \in {"padr_loop", "read_pads", "discovery_returned"})]_vars
    /\ [][(pc = "read_pads" /\ rx' # rx /\ rx'.outcome = "timeout")
            => (pc' = "padr_loop" /\ UNCHANGED << concentrator, cookie >>)]_vars

\* A PADR was sent a second time after a timeout waiting for the PADS.
C36_Witness ==
    /\ pc = "read_pads" /\ padrCount = 2 /\ padiCount = 1
    /\ rx.phase = "PADS" /\ rx.outcome = "timeout"
    /\ tx.kind = "PADR" /\ tx.dst = concentrator /\ concentrator \in Peers

\* C37: a Close call closes each handle of the Conn (PPP channel file,
\* session fd, raw discovery port) exactly once; the raw port is not closed
\* by both the PADT helper and Close itself.
C37_EachHandleClosedOnce ==
    (pc = "established" /\ closeCalls >= 1) => \A h \in Handles : closes[h] = 1

\* ------------------------------------------- claims, concurrent Read and Write
\* C38: with a Read and a Write under way on one Conn at once, no step of the
\* Write (setting its timeout, clearing it) changes the receive timeout the
\* Read waits under, and no step of the Read changes the send timeout the
\* Write waits under.
C38_ConcurrentTimeoutsApart ==
    [][ /\ (rd.pc = "syscall" /\ wr' # wr)
              => sockopt'["SO_RCVTIMEO"] = sockopt["SO_RCVTIMEO"]
        /\ (wr.pc = "syscall" /\ rd' # rd)
              => sockopt'["SO_SNDTIMEO"] = sockopt["SO_SNDTIMEO"] ]_vars

\* ------------------------------------------------ claims, LCP option map
\* The option types that stand in an option stream.
RECURSIVE OptionTypes(_)
OptionTypes(pl) ==
    IF Len(pl) < 2 THEN {}
    ELSE {pl[1]} \cup OptionTypes(SubSeq(pl, pl[2] + 1, Len(pl)))

\* C39: after a successful Parse of a configure-family frame UnknownOptions
\* has no key 1 (MRU), 3 (AuthProto) or 5 (Magic): each recognized option is
\* held in its own field only, and UnknownOptions holds every other option
\* type that stands in the frame, with its value.
C39_KnownOptionsRemoved ==
    (ConfigureParsed /\ cparse.err = "nil")
        => LET body == LCPBody(cbytes)
               seen == OptionTypes(body)
               last(t) == LastOption(body, t, <<-1>>)
           IN  /\ DOMAIN cparse.UnknownOptions \cap {1, 3, 5} = {}
               /\ DOMAIN cparse.UnknownOptions = seen \ {1, 3, 5}
               /\ \A t \in seen \ {1, 3, 5} : cparse.UnknownOptions[t] = last(t)
               /\ 1 \in seen => cparse.MRU = last(1)[1] * 256 + last(1)[2]
               /\ 3 \in seen => cparse.AuthProto = last(3)[1] * 256 + last(3)[2]
               /\ 5 \in seen => cparse.Magic =
                      ((last(5)[1] * 256 + last(5)[2]) * 256 + last(5)[3]) * 256 + last(5)[4]

\* A frame with an MRU option and an option of type 7 was parsed.
C39_Witness ==
    /\ cproto = "lcp" /\ cstep = "parsed"
    /\ cbytes = <<192, 33, 1, 1, 0, 11, 1, 4, 5, 220, 7, 3, 9>>
    /\ cparse.err = "nil" /\ cparse.MRU = 1500
    /\ cparse.UnknownOptions = TagPut(NoTags, 7, <<9>>)

\* ------------------------------------------------ claims, LCP length fields
\* The unknown options as they should stand in the frame, each length byte
\* the size of its option.
RECURSIVE TrueOptionBytes(_, _)
TrueOptionBytes(opts, order) ==
    IF order = << >> THEN << >>
    ELSE << Head(order), Len(opts[Head(order)]) + 2 >> \o opts[Head(order)]
         \o TrueOptionBytes(opts, Tail(order))

\* The bytes Bytes writes for the known options of a configure packet.
KnownOptionLen(p) ==
    (IF p.MRU # 0 THEN 4 ELSE 0)
    + (IF p.AuthProto # 0 THEN (IF p.CHAPAlgorithm # 0 THEN 5 ELSE 4) ELSE 0)
    + (IF p.Magic # 0 THEN 6 ELSE 0)

\* C40: in what Bytes returns every length field is the size it describes:
\* the 2-byte LCP length is the number of bytes after the protocol field, and
\* the length byte of each unknown option is len(value) + 2, for every Packet
\* Bytes is given.
C40_LengthFieldsTrue ==
    (cproto = "lcp" /\ cstep = "encoded")
        => /\ LCPLength(cbytes) = Len(cbytes) - 2
           /\ cpkt.Code \in 1 .. 4
                => \E order \in Orders(DOMAIN cpkt.UnknownOptions) :
                      SubSeq(cbytes, 7 + KnownOptionLen(cpkt), Len(cbytes))
                          = TrueOptionBytes(cpkt.UnknownOptions, order)

====
